---- MODULE Spec2Model ----
(***************************************************************************)
(* State-machine model of stupid-campus-run/route.py: the RealisticRunner  *)
(* (pre-course approach, pace governor, one-time rest, pacing states,      *)
(* lateral offset, corner cutting) on a TrackGeometry.                     *)
(*                                                                         *)
(* Units.  Time is in whole seconds.  Distances, lane offsets and path     *)
(* lengths are integers in units of 0.1 mm (M units = 1 m), speeds in      *)
(* units of 0.1 mm/s, so that base_speed * multiplier * jitter is exact.   *)
(* Percentages are integers out of 100.                                    *)
(*                                                                         *)
(* Random draws.  random.uniform(a, b) is sampled at its end points,       *)
(* random.choice / random.choices by the support of the list,              *)
(* random.random() < p by the outcomes that p allows.                      *)
(*                                                                         *)
(* route.py as it stands holds the body of RealisticRunner.update in two   *)
(* pieces: lines 310-379 (steps 0-4) and lines 419-455 (the tail of step 6 *)
(* and step 7, found under a first "def _trigger_rest" header).  The lines *)
(* between them (the tick's distance delta, the advance of                 *)
(* cumulative_distance, the call of _update_lane_offset and the guard of   *)
(* the corner-cut block) are not in the file; they are modelled from the   *)
(* design document and marked as such where they occur.                    *)
(***************************************************************************)
EXTENDS Integers, FiniteSets, Sequences, TLC

\* runner: the RealisticRunner; gps_sensor: the GPSSensor; generator: the
\* RouteGenerator (its own fields; its runner and gps_sensor are the two
\* variables before it); random: the state of the random module, where a
\* seeded run is followed; track: the TrackGeometry
VARIABLES runner, gps_sensor, generator, random, track

vars == <<runner, gps_sensor, generator, random, track>>

\* an object that has not been constructed
None == [none |-> TRUE]

(* ------------------------------------------------------------------ *)
(* Bounds of the model                                                  *)
(* ------------------------------------------------------------------ *)

\* units of distance per metre
M == 100 * 100

\* elapsed run time (total_time, seconds) up to which update is explored
MaxTime == 100

\* the track the runner is constructed on: straight 8 m, bend arc 12 m
\* (a 40 m lap, the default 400 m course at 1:10)
StraightMetres == 8
BendArcMetres == 12

\* the time steps update is called with (seconds)
Dts == {0, 10}

\* base_speed values the runner is constructed with (0.1 mm/s):
\* 2.56 m/s (the default) and 1.28 m/s
BaseSpeeds == {25600, 12800}

\* lengths of the approach path (sum of its 30 segments)
WalkingPathLengths == {60000}

\* lengths of a corner-cut path (sum of its 50 segments)
CornerPathLengths == {200000, 500000}

\* sample of the coherent noise term noise(x) * 0.4 (metres * M)
UnconsciousDrifts == {4000}

(* ------------------------------------------------------------------ *)
(* Helpers                                                              *)
(* ------------------------------------------------------------------ *)

Bind(S, F(_)) == UNION {F(s) : s \in S}

Max(a, b) == IF a >= b THEN a ELSE b
Min(a, b) == IF a <= b THEN a ELSE b

\* random.uniform(a, b), sampled at its end points
uniform(a, b) == {a, b}

\* the outcomes of "random.random() < num/den * dt", random() in [0, 1)
random_below(num, den, dt) ==
    IF num * dt <= 0 THEN {FALSE}
    ELSE IF num * dt >= den THEN {TRUE}
    ELSE {TRUE, FALSE}

(* ------------------------------------------------------------------ *)
(* RunnerState                                                          *)
(* ------------------------------------------------------------------ *)

RUNNING == "running"
JOGGING == "jogging"
WALKING == "walking"
RESTING == "resting"
RunnerState == {RUNNING, JOGGING, WALKING, RESTING}

(* ------------------------------------------------------------------ *)
(* TrackGeometry                                                        *)
(* ------------------------------------------------------------------ *)

straight_length == StraightMetres * M
band_circumference == BendArcMetres * M
total_circumference == 2 * straight_length + 2 * band_circumference

\* TrackGeometry.__init__, the bend given by its arc pi * band_radius
TrackGeometryInit(straight_length_, band_arc) ==
    [straight_length |-> straight_length_,
     band_circumference |-> band_arc,
     total_circumference |-> 2 * straight_length_ + 2 * band_arc]

\* the track of the runs
Track == TrackGeometryInit(straight_length, band_circumference)

\* get_position_on_track(distance, lane_radius_offset): the point is
\* determined by the distance normalised modulo the lap and by the
\* effective radius; it is kept as that pair.
get_position_on_track(distance, lane_radius_offset) ==
    [kind |-> "track",
     d    |-> distance % total_circumference,
     lane |-> lane_radius_offset]

is_in_curve(distance) ==
    LET d == distance % total_circumference IN
    \/ (straight_length < d /\ d <= straight_length + band_circumference)
    \/ d > 2 * straight_length + band_circumference

get_curve_exit_point(distance) ==
    LET d == distance % total_circumference IN
    IF straight_length < d /\ d <= straight_length + band_circumference
    THEN straight_length + band_circumference
    ELSE IF d > 2 * straight_length + band_circumference THEN 0 ELSE d

(* ------------------------------------------------------------------ *)
(* RealisticRunner: construction                                        *)
(* ------------------------------------------------------------------ *)

\* state_durations: (shortest, longest) dwell of each state, seconds
state_durations(s) ==
    CASE s = RUNNING -> <<180, 420>>
      [] s = JOGGING -> <<15, 40>>
      [] s = WALKING -> <<5, 15>>
      [] s = RESTING -> <<10, 30>>

\* random.uniform(*self.state_durations[s])
draw_duration(s) == uniform(state_durations(s)[1], state_durations(s)[2])

\* speed_multipliers with RUNNING at the base speed, in percent
speed_multipliers_unit(s) ==
    CASE s = RUNNING -> 100
      [] s = JOGGING -> 115
      [] s = WALKING -> 85
      [] s = RESTING -> 0

\* speed_multipliers with RESTING at the speed of WALKING, in percent
speed_multipliers_rest_walks(s) ==
    CASE s = RUNNING -> 145
      [] s = JOGGING -> 115
      [] s = WALKING -> 85
      [] s = RESTING -> 85

\* speed_multipliers, in percent
speed_multipliers(s) ==
    CASE s = RUNNING -> 145
      [] s = JOGGING -> 115
      [] s = WALKING -> 85
      [] s = RESTING -> 0

\* speed_variation = 1.0 + random.uniform(-0.05, 0.05), in percent
speed_variations == {100 + v : v \in uniform(-5, 5)}

pace_check_interval == 10
lane_change_speed == 1500
walking_speed == 5600
corner_cut_probability == 25

\* target_min_speed = 1000/8/60 m/s = 25/12 m/s; target_avg_speed =
\* 1000/5/60 m/s = 10/3 m/s.  below(d, t, num, den) is d/t < num/den m/s.
target_min_speed == <<25, 12>>
target_avg_speed == <<10, 3>>
below(d, t, v) == d * v[2] < v[1] * M * t

\* _initialize_start_position: the entry point lies on the right or on the
\* left straight, entry_distance along it; the start lies 5-15 m outside.
\* (entry_distance is sampled at 20% of the right and 80% of the left straight.)
track_entry_positions ==
    {get_position_on_track((20 * straight_length) \div 100, 0),
     get_position_on_track(straight_length + band_circumference
                           + (80 * straight_length) \div 100, 0)}

\* the point of a path reached after `at` units of its length
path_point(path, at) == [kind |-> path, at |-> at]

\* samples of the draws that only steer the lateral offset: the lane
\* preferred at construction, the lane and bend bias of a new lap, the
\* nudge and the delay of the periodic lane adjustment
initial_lanes == {15000}
lane_options == {30000}
curve_bias_choices == {-12000}
lane_nudges == {M}
lane_change_delays == {40}
initial_lane_change_delays == {15}
rest_trigger_lap_choices == 3 .. 5

\* RealisticRunner.__init__
RunnerInit(base_speed) ==
    {[base_speed |-> base_speed,
      state |-> RUNNING,
      state_time |-> 0,
      next_state_change |-> nsc,
      true_pos |-> path_point("walking", 0),
      cumulative_distance |-> 0,
      walking_to_track |-> TRUE,
      track_entry_position |-> entry,
      walking_progress |-> 0,
      walking_path_length |-> wl,
      lane_offset |-> 0,
      target_lane_offset |-> 0,
      lane_change_timer |-> 0,
      next_lane_change_time |-> nlc,
      preferred_lane |-> pl,
      current_lap |-> 0,
      lap_main_lane |-> ml,
      curve_bias |-> -5000,
      cutting_corner |-> FALSE,
      corner_start_pos |-> path_point("none", 0),
      corner_target_pos |-> path_point("none", 0),
      corner_target_distance |-> 0,
      corner_target_lane |-> 0,
      corner_progress |-> 0,
      corner_path_length |-> 0,
      last_corner_cut_distance |-> -1000 * M,
      rest_trigger_laps |-> rl,
      rest_triggered_this_lap |-> FALSE,
      has_rested_ever |-> FALSE,
      total_time |-> 0,
      last_pace_check_time |-> 0,
      rest_count |-> 0,
      events |-> {}] :
        nsc \in draw_duration(RUNNING),
        entry \in track_entry_positions,
        wl \in WalkingPathLengths,
        nlc \in initial_lane_change_delays,
        pl \in initial_lanes,
        ml \in initial_lanes,
        rl \in rest_trigger_lap_choices}

(* ------------------------------------------------------------------ *)
(* RealisticRunner._update_walking_to_track                             *)
(* ------------------------------------------------------------------ *)

\* _update_walking_to_track that leaves walking_to_track set on arrival
_update_walking_to_track_stays(r, dt) ==
    LET progress == IF r.walking_path_length > 0
                    THEN r.walking_progress + walking_speed * dt
                    ELSE r.walking_progress
        r1 == [r EXCEPT !.walking_progress = progress]
    IN  IF r.walking_path_length > 0 /\ progress >= r.walking_path_length
        THEN [r1 EXCEPT !.true_pos = r.track_entry_position,
                        !.events = {"arrived"}]
        ELSE [r1 EXCEPT !.true_pos = path_point("walking", progress),
                        !.events = {}]

\* _update_walking_to_track that walks at base_speed
_update_walking_to_track_at_base_speed(r, dt) ==
    LET progress == IF r.walking_path_length > 0
                    THEN r.walking_progress + r.base_speed * dt
                    ELSE r.walking_progress
        r1 == [r EXCEPT !.walking_progress = progress]
    IN  IF r.walking_path_length > 0 /\ progress >= r.walking_path_length
        THEN [r1 EXCEPT !.walking_to_track = FALSE,
                        !.true_pos = r.track_entry_position,
                        !.events = {"arrived"}]
        ELSE [r1 EXCEPT !.true_pos = path_point("walking", progress),
                        !.events = {}]

\* walking_progress is kept as the length walked: the source's fraction is
\* walking_progress / walking_path_length.
_update_walking_to_track(r, dt) ==
    LET progress == IF r.walking_path_length > 0
                    THEN r.walking_progress + walking_speed * dt
                    ELSE r.walking_progress
        r1 == [r EXCEPT !.walking_progress = progress]
    IN  IF r.walking_path_length > 0 /\ progress >= r.walking_path_length
        THEN [r1 EXCEPT !.walking_to_track = FALSE,
                        !.true_pos = r.track_entry_position,
                        !.events = {"arrived"}]
        ELSE [r1 EXCEPT !.true_pos = path_point("walking", progress),
                        !.events = {}]

(* ------------------------------------------------------------------ *)
(* RealisticRunner.update, steps 1-4 (route.py 325-379)                 *)
(* ------------------------------------------------------------------ *)

\* a branch of update taken in the call (what the source prints, and the
\* branches it takes silently), kept for the properties to tell the steps apart
note(r, e) == [r EXCEPT !.events = @ \cup {e}]

\* the same, for a change of state: leaving RESTING is noted as well
note_change(r, from, e) ==
    [r EXCEPT !.events = @ \cup (IF from = RESTING THEN {e, "rest_over"} ELSE {e})]

\* step 1: the pace check, every pace_check_interval seconds
pace_check(r) ==
    IF r.total_time - r.last_pace_check_time >= pace_check_interval
    THEN LET r1 == [r EXCEPT !.last_pace_check_time = r.total_time] IN
         IF r.total_time > 30 /\ r.cumulative_distance > 0
         THEN IF below(r.cumulative_distance, r.total_time, target_min_speed)
              THEN IF r.state # RUNNING
                   THEN {note_change([r1 EXCEPT !.state = RUNNING,
                                                !.state_time = 0,
                                                !.next_state_change = d],
                                     r.state, "forced_running") :
                            d \in draw_duration(RUNNING)}
                   ELSE {note(r1, "too_slow")}
              ELSE IF below(r.cumulative_distance, r.total_time, target_avg_speed)
                   THEN IF r.state \in {WALKING, RESTING}
                        THEN UNION {{note_change([r1 EXCEPT !.state = s,
                                                            !.state_time = 0,
                                                            !.next_state_change = d],
                                                 r.state, "sped_up") :
                                        d \in draw_duration(s)} :
                                    s \in {JOGGING, RUNNING}}
                        ELSE {r1}
                   ELSE {r1}
         ELSE {r1}
    ELSE {r}

\* _trigger_rest that sets neither of the two flags
_trigger_rest_no_flags(r) ==
    {note([r EXCEPT !.state = RESTING,
                    !.state_time = 0,
                    !.next_state_change = d,
                    !.rest_count = @ + 1],
          "rest") :
        d \in draw_duration(RESTING)}

\* _trigger_rest that draws the dwell of RUNNING
_trigger_rest_long(r) ==
    {note([r EXCEPT !.state = RESTING,
                    !.state_time = 0,
                    !.next_state_change = d,
                    !.rest_triggered_this_lap = TRUE,
                    !.has_rested_ever = TRUE,
                    !.rest_count = @ + 1],
          "rest") :
        d \in draw_duration(RUNNING)}

\* _trigger_rest (the definition in force, route.py 457-467); rest_count
\* counts its calls
_trigger_rest(r) ==
    {note([r EXCEPT !.state = RESTING,
                    !.state_time = 0,
                    !.next_state_change = d,
                    !.rest_triggered_this_lap = TRUE,
                    !.has_rested_ever = TRUE,
                    !.rest_count = @ + 1],
          "rest") :
        d \in draw_duration(RESTING)}

\* the window of the rest check taken as the whole straight
in_rest_window_whole(along) == along >= 0

\* 0.3 <= progress <= 0.7 for progress = along / straight_length
in_rest_window(along) ==
    30 * straight_length <= 100 * along /\ 100 * along <= 70 * straight_length

\* step 2: the rest check
rest_check(r, dt) ==
    LET current_lap == r.cumulative_distance \div total_circumference
        distance_in_lap == r.cumulative_distance % total_circumference
        left_start == straight_length + band_circumference
        on_right == distance_in_lap <= straight_length
        on_left == left_start < distance_in_lap
                   /\ distance_in_lap <= 2 * straight_length + band_circumference
        along == IF on_right THEN distance_in_lap ELSE distance_in_lap - left_start
    IN  IF /\ ~r.has_rested_ever
           /\ current_lap = r.rest_trigger_laps
           /\ ~r.rest_triggered_this_lap
           /\ (on_right \/ on_left)
           /\ in_rest_window(along)
        THEN UNION {IF hit THEN _trigger_rest(r) ELSE {r} :
                        hit \in random_below(5, 100, dt)}
        ELSE {r}

\* _change_state whose last branch resumes with JOGGING
_change_state_rest_jogs(r) ==
    LET next == CASE r.state = RUNNING -> {RUNNING, JOGGING, WALKING}
                  [] r.state = JOGGING -> {RUNNING, JOGGING, WALKING}
                  [] r.state = WALKING -> {RUNNING, JOGGING}
                  [] OTHER -> {JOGGING}
    IN  UNION {{note_change([r EXCEPT !.state = s,
                                      !.state_time = 0,
                                      !.next_state_change = d],
                            r.state, "changed") :
                   d \in draw_duration(s)} :
               s \in next}

\* _change_state whose JOGGING branch lists RESTING among its choices
_change_state_can_rest(r) ==
    LET next == CASE r.state = RUNNING -> {RUNNING, JOGGING, WALKING}
                  [] r.state = JOGGING -> {RUNNING, JOGGING, WALKING, RESTING}
                  [] r.state = WALKING -> {RUNNING, JOGGING}
                  [] OTHER -> {RUNNING}
    IN  UNION {{note_change([r EXCEPT !.state = s,
                                      !.state_time = 0,
                                      !.next_state_change = d],
                            r.state, "changed") :
                   d \in draw_duration(s)} :
               s \in next}

\* random.choices(states, weights): every state of positive weight
_change_state(r) ==
    LET next == CASE r.state = RUNNING -> {RUNNING, JOGGING, WALKING}
                  [] r.state = JOGGING -> {RUNNING, JOGGING, WALKING}
                  [] r.state = WALKING -> {RUNNING, JOGGING}
                  [] OTHER -> {RUNNING}
    IN  UNION {{note_change([r EXCEPT !.state = s,
                                      !.state_time = 0,
                                      !.next_state_change = d],
                            r.state, "changed") :
                   d \in draw_duration(s)} :
               s \in next}

\* step 3 with the state changed only once the timer is past the threshold
state_step_late(r, dt) ==
    LET r1 == [r EXCEPT !.state_time = @ + dt] IN
    IF r1.state_time > r1.next_state_change THEN _change_state(r1) ELSE {r1}

\* step 3: the dwell timer
state_step(r, dt) ==
    LET r1 == [r EXCEPT !.state_time = @ + dt] IN
    IF r1.state_time >= r1.next_state_change THEN _change_state(r1) ELSE {r1}

\* current_speed with speed_variation = random.uniform(-0.05, 0.05)
current_speeds_no_one(r) ==
    {(r.base_speed * speed_multipliers(r.state) * v) \div 10000 :
        v \in uniform(-5, 5)}

\* step 4: current_speed = base_speed * multiplier * speed_variation
current_speeds(r) ==
    {(r.base_speed * speed_multipliers(r.state) * v) \div 10000 :
        v \in speed_variations}

(* ------------------------------------------------------------------ *)
(* RealisticRunner._update_lane_offset (route.py 498-545)               *)
(* ------------------------------------------------------------------ *)

\* a lane offset left as it is
clamp_lane_free(x) == x

clamp_lane(x) == Max(-35000, Min(35000, x))

new_lap(r) ==
    LET lap == r.cumulative_distance \div total_circumference IN
    IF lap > r.current_lap
    THEN {[r EXCEPT !.current_lap = lap,
                    !.lap_main_lane = l,
                    !.preferred_lane = l,
                    !.curve_bias = b] :
             l \in lane_options, b \in curve_bias_choices}
    ELSE {r}

lane_timer(r, dt) ==
    LET r1 == [r EXCEPT !.lane_change_timer = @ + dt] IN
    IF r1.lane_change_timer >= r1.next_lane_change_time
    THEN {[r1 EXCEPT !.preferred_lane = r1.lap_main_lane + u,
                     !.lane_change_timer = 0,
                     !.next_lane_change_time = t] :
             u \in lane_nudges, t \in lane_change_delays}
    ELSE {r1}

approach_target(r, dt) ==
    {LET curve_offset == IF is_in_curve(r.cumulative_distance)
                         THEN r.curve_bias ELSE 0
         target == r.preferred_lane + drift + curve_offset
         moved == IF r.lane_offset - target > 100
                  THEN r.lane_offset - lane_change_speed * dt
                  ELSE IF target - r.lane_offset > 100
                       THEN r.lane_offset + lane_change_speed * dt
                       ELSE r.lane_offset
     IN  [r EXCEPT !.target_lane_offset = target,
                   !.lane_offset = clamp_lane(moved)] :
        drift \in UnconsciousDrifts}

_update_lane_offset(r, dt) ==
    Bind(Bind(new_lap(r), LAMBDA a : lane_timer(a, dt)),
         LAMBDA b : approach_target(b, dt))

(* ------------------------------------------------------------------ *)
(* Corner cutting (route.py 419-449, 547-665)                           *)
(* ------------------------------------------------------------------ *)

\* the lane change of a cut across a straight (one of the six)
lane_offset_changes == {-15000}

\* _start_cutting_corner with _generate_corner_cut_curve: the path is kept
\* by its length
_start_cutting_corner(r) ==
    LET distance_in_lap == r.cumulative_distance % total_circumference
        exit == get_curve_exit_point(r.cumulative_distance) - distance_in_lap
        remaining_curve == IF exit < 0 THEN exit + total_circumference ELSE exit
        targets ==
            IF is_in_curve(r.cumulative_distance)
            THEN {<<r.cumulative_distance + (remaining_curve * ratio) \div 100,
                    (r.lane_offset * 4) \div 10>> : ratio \in uniform(30, 60)}
            ELSE {<<r.cumulative_distance + skip,
                    clamp_lane(r.lane_offset + c)>> :
                     skip \in uniform(20 * M, 50 * M), c \in lane_offset_changes}
    IN  {note([r EXCEPT !.cutting_corner = TRUE,
                        !.corner_progress = 0,
                        !.corner_start_pos = r.true_pos,
                        !.corner_target_pos = get_position_on_track(t[1], t[2]),
                        !.corner_target_distance = t[1],
                        !.corner_target_lane = t[2],
                        !.corner_path_length = len,
                        !.last_corner_cut_distance = r.cumulative_distance],
              "cut_started") :
            t \in targets, len \in CornerPathLengths}

\* _update_cutting_corner that assigns the tick's fraction to
\* corner_progress instead of adding it
_update_cutting_corner_assign(r, dt, distance_delta) ==
    LET progress == IF r.corner_path_length > 0
                    THEN distance_delta
                    ELSE r.corner_progress
        r1 == [r EXCEPT !.corner_progress = progress]
    IN  IF r.corner_path_length > 0 /\ progress >= r.corner_path_length
        THEN note([r1 EXCEPT !.cutting_corner = FALSE,
                             !.true_pos = r.corner_target_pos],
                  "cut_finished")
        ELSE [r1 EXCEPT !.true_pos = path_point("corner", progress)]

\* _update_cutting_corner that leaves corner_progress where it is
_update_cutting_corner_stalls(r, dt, distance_delta) ==
    [r EXCEPT !.true_pos = path_point("corner", r.corner_progress)]

\* corner_progress is kept as the length covered: the source's fraction is
\* corner_progress / corner_path_length
_update_cutting_corner(r, dt, distance_delta) ==
    LET progress == IF r.corner_path_length > 0
                    THEN r.corner_progress + distance_delta
                    ELSE r.corner_progress
        r1 == [r EXCEPT !.corner_progress = progress]
    IN  IF r.corner_path_length > 0 /\ progress >= r.corner_path_length
        THEN note([r1 EXCEPT !.cutting_corner = FALSE,
                             !.true_pos = r.corner_target_pos],
                  "cut_finished")
        ELSE [r1 EXCEPT !.true_pos = path_point("corner", progress)]

_update_normal_position(r) ==
    [r EXCEPT !.true_pos =
        get_position_on_track(r.cumulative_distance, r.lane_offset)]

\* the window test of the corner-cut block passed everywhere
can_cut_anywhere(r) == r.cumulative_distance >= 0

\* the window test of the corner-cut block (route.py 419-445)
can_cut(r) ==
    LET distance_in_lap == r.cumulative_distance % total_circumference
        left_start == straight_length + band_circumference
        upper == straight_length < distance_in_lap /\ distance_in_lap <= left_start
        arc == IF upper THEN distance_in_lap - straight_length
               ELSE distance_in_lap - 2 * straight_length - band_circumference
        on_right == distance_in_lap <= straight_length
        on_left == left_start < distance_in_lap
                   /\ distance_in_lap <= 2 * straight_length + band_circumference
        along == IF on_right THEN distance_in_lap ELSE distance_in_lap - left_start
    IN  IF is_in_curve(r.cumulative_distance)
        THEN 25 * band_circumference <= 100 * arc
             /\ 100 * arc <= 75 * band_circumference
        ELSE (on_right \/ on_left)
             /\ 20 * straight_length <= 100 * along
             /\ 100 * along <= 80 * straight_length

\* the distance since the previous cut after which a new one may start
\* (not in the file; the design asks for "sufficient distance")
corner_cut_min_gap == 100 * M

\* the guard of the corner-cut block.  Not in the file: a cut may start
\* only outside an active cut and far enough from the previous one.
corner_cut_allowed(r) ==
    /\ ~r.cutting_corner
    /\ r.cumulative_distance - r.last_corner_cut_distance > corner_cut_min_gap

\* step 6, second half: the corner-cut trigger (route.py 419-449)
corner_cut_check(r, dt) ==
    IF corner_cut_allowed(r) /\ can_cut(r)
    THEN UNION {IF hit THEN _start_cutting_corner(r) ELSE {r} :
                    hit \in random_below(corner_cut_probability, 1000, dt)}
    ELSE {r}

\* step 7: the position (route.py 451-455)
update_position(r, dt, distance_delta) ==
    IF r.cutting_corner
    THEN _update_cutting_corner(r, dt, distance_delta)
    ELSE _update_normal_position(r)

\* step 5: the tick's distance.  Not in the file: cumulative distance
\* advances by speed * dt unless a corner cut is active.
advance_distance(r, distance_delta) ==
    IF r.cutting_corner THEN r
    ELSE [r EXCEPT !.cumulative_distance = @ + distance_delta]

(* ------------------------------------------------------------------ *)
(* RealisticRunner.update                                               *)
(* ------------------------------------------------------------------ *)

\* steps 5-7.  The order of the first two is not in the file: the lateral
\* offset, then the distance; the file has the corner-cut trigger and then
\* the position.
move(r, dt, current_speed) ==
    LET distance_delta == current_speed * dt IN
    {update_position(c, dt, distance_delta) :
        c \in Bind({advance_distance(l, distance_delta) :
                       l \in _update_lane_offset(r, dt)},
                   LAMBDA a : corner_cut_check(a, dt))}

\* update past the approach: steps 0-7
update_on_track(r, dt) ==
    LET r0 == [r EXCEPT !.total_time = @ + dt, !.events = {}]
        timed == Bind(Bind(pace_check(r0),
                           LAMBDA a : rest_check(a, dt)),
                      LAMBDA b : state_step(b, dt))
    IN  Bind(timed,
             LAMBDA c : Bind(current_speeds(c),
                             LAMBDA v : move(c, dt, v)))

\* update that advances total_time before it tests walking_to_track
update_time_first(r, dt) ==
    IF r.walking_to_track
    THEN {[_update_walking_to_track(r, dt) EXCEPT !.total_time = @ + dt]}
    ELSE update_on_track(r, dt)

update(r, dt) ==
    IF r.walking_to_track
    THEN {_update_walking_to_track(r, dt)}
    ELSE update_on_track(r, dt)

(* ------------------------------------------------------------------ *)
(* The runner under any sequence of update calls                        *)
(* ------------------------------------------------------------------ *)

Init ==
    /\ runner \in UNION {RunnerInit(b) : b \in BaseSpeeds}
    /\ gps_sensor = None
    /\ generator = None
    /\ random = None
    /\ track = Track

\* update(dt) during the approach
UpdateApproach ==
    /\ runner.walking_to_track
    /\ \E dt \in Dts : runner' \in update(runner, dt)
    /\ UNCHANGED <<gps_sensor, generator, random, track>>

\* update(dt) on the course
UpdateRun ==
    /\ ~runner.walking_to_track
    /\ \E dt \in Dts :
          /\ runner.total_time + dt <= MaxTime
          /\ runner' \in update(runner, dt)
    /\ UNCHANGED <<gps_sensor, generator, random, track>>

Next == UpdateApproach \/ UpdateRun

Spec == Init /\ [][Next]_vars

(* ------------------------------------------------------------------ *)
(* GPSSensor (route.py 681-754)                                         *)
(*                                                                      *)
(* Times are whole seconds; drift, noise and coordinates are in units   *)
(* of 0.1 mm like every length; drift_factor is in percent.  The blend  *)
(* of the noise memory is rounded down to the unit.                     *)
(* ------------------------------------------------------------------ *)

\* random.gauss(mu, sigma): the mean and a draw three deviations to
\* either side of it
gauss(mu, sigma) == {mu - 3 * sigma, mu, mu + 3 * sigma}

\* the sensors constructed: sampling_rate (s), noise_std, drift_factor (%)
SamplingRates == {0, 10, 15}
NoiseStds == {0, 45000}
DriftFactors == {95}

\* the calls made on a sensor: current_time up to MaxNow, each call at most
\* a step of NowSteps later than the one before; true positions read
MaxNow == 30
NowSteps == {0, 5, 15}
TruePositions == {<<10 * M, -5 * M>>}
MaxReadings == 2

\* GPSSensor.__init__.  The fields after next_drift_change record the
\* calls: current_time and result of the last should_sample, the
\* current_time of the last two calls that returned True (-1: none), the
\* last reading returned and the number of readings.
GPSSensorInit(sampling_rate, noise_std, drift_factor) ==
    {[sampling_rate |-> sampling_rate,
      noise_std |-> noise_std,
      drift_factor |-> drift_factor,
      last_sample_time |-> 0,
      noise_x |-> 0,
      noise_y |-> 0,
      long_term_drift_x |-> dx,
      long_term_drift_y |-> dy,
      drift_change_timer |-> 0,
      next_drift_change |-> n,
      current_time |-> 0,
      result |-> FALSE,
      true_time |-> -1,
      earlier_true_time |-> -1,
      gps |-> <<0, 0>>,
      readings |-> 0,
      call |-> "init"] :
        dx \in gauss(0, 2 * M), dy \in gauss(0, 2 * M), n \in uniform(30, 120)}

\* the drift step of should_sample, taken when the timer has run out
drift_step(s) ==
    IF s.drift_change_timer >= s.next_drift_change
    THEN {[s EXCEPT !.long_term_drift_x = Max(-5 * M, Min(5 * M, @ + gx)),
                    !.long_term_drift_y = Max(-5 * M, Min(5 * M, @ + gy)),
                    !.drift_change_timer = 0,
                    !.next_drift_change = n] :
             gx \in gauss(0, M \div 2), gy \in gauss(0, M \div 2),
             n \in uniform(30, 120)}
    ELSE {s}

\* should_sample that leaves last_sample_time as it is
should_sample_forgets(s, current_time) ==
    LET c == [s EXCEPT !.current_time = current_time, !.call = "should_sample"] IN
    IF current_time - s.last_sample_time >= s.sampling_rate
    THEN {[d EXCEPT !.result = TRUE,
                    !.earlier_true_time = s.true_time,
                    !.true_time = current_time] :
             d \in drift_step([c EXCEPT !.drift_change_timer = @ + s.sampling_rate])}
    ELSE {[c EXCEPT !.result = FALSE]}

\* should_sample(current_time): the sensor after the call, result in .result
should_sample(s, current_time) ==
    LET c == [s EXCEPT !.current_time = current_time, !.call = "should_sample"] IN
    IF current_time - s.last_sample_time >= s.sampling_rate
    THEN {[d EXCEPT !.result = TRUE,
                    !.earlier_true_time = s.true_time,
                    !.true_time = current_time] :
             d \in drift_step([c EXCEPT !.last_sample_time = current_time,
                                        !.drift_change_timer = @ + s.sampling_rate])}
    ELSE {[c EXCEPT !.result = FALSE]}

\* factor * previous + (1 - factor) * fresh
blend(factor, previous, fresh) ==
    (factor * previous + (100 - factor) * fresh) \div 100

\* get_gps_reading that returns the fresh sample and keeps no memory
get_gps_reading_fresh(s, true_x, true_y) ==
    {[s EXCEPT !.gps = <<true_x + s.long_term_drift_x + nx,
                         true_y + s.long_term_drift_y + ny>>,
               !.readings = @ + 1,
               !.call = "get_gps_reading"] :
        nx \in gauss(0, s.noise_std), ny \in gauss(0, s.noise_std)}

\* get_gps_reading(true_x, true_y): the sensor after the call, the reading
\* returned in .gps
get_gps_reading(s, true_x, true_y) ==
    {LET noise_x == blend(s.drift_factor, s.noise_x, new_noise_x)
         noise_y == blend(s.drift_factor, s.noise_y, new_noise_y)
     IN  [s EXCEPT !.noise_x = noise_x,
                   !.noise_y = noise_y,
                   !.gps = <<true_x + s.long_term_drift_x + noise_x,
                             true_y + s.long_term_drift_y + noise_y>>,
                   !.readings = @ + 1,
                   !.call = "get_gps_reading"] :
        new_noise_x \in gauss(0, s.noise_std),
        new_noise_y \in gauss(0, s.noise_std)}

(* ------------------------------------------------------------------ *)
(* A sensor under any sequence of calls with non-decreasing times       *)
(* ------------------------------------------------------------------ *)

SensorInit ==
    /\ gps_sensor \in UNION {GPSSensorInit(r, n, f) :
                                r \in SamplingRates, n \in NoiseStds,
                                f \in DriftFactors}
    /\ runner = None
    /\ generator = None
    /\ random = None
    /\ track = None

ShouldSample ==
    /\ \E step \in NowSteps :
          /\ gps_sensor.current_time + step <= MaxNow
          /\ gps_sensor' \in should_sample(gps_sensor,
                                           gps_sensor.current_time + step)
    /\ UNCHANGED <<runner, generator, random, track>>

GetGpsReading ==
    /\ gps_sensor.readings < MaxReadings
    /\ \E p \in TruePositions :
          gps_sensor' \in get_gps_reading(gps_sensor, p[1], p[2])
    /\ UNCHANGED <<runner, generator, random, track>>

SensorNext == ShouldSample \/ GetGpsReading

SensorSpec == SensorInit /\ [][SensorNext]_vars

(* ------------------------------------------------------------------ *)
(* RouteGenerator (route.py 757-1027)                                   *)
(*                                                                      *)
(* The generator's runner and gps_sensor are the variables of those     *)
(* names; generator holds its other fields.  A GPS point keeps the true *)
(* position it was read at and the reading's offset from it (long-term  *)
(* drift + noise): the reading is taken with the true position as the   *)
(* origin.                                                              *)
(* ------------------------------------------------------------------ *)

\* track_config: speed, the three sensor settings and simulation_dt (s)
TrackConfigs ==
    {[speed |-> 25600, gps_sampling_rate |-> 1, gps_noise_std |-> 0,
      gps_drift_factor |-> 95, simulation_dt |-> 1],
     [speed |-> 25600, gps_sampling_rate |-> 3, gps_noise_std |-> 45000,
      gps_drift_factor |-> 95, simulation_dt |-> 2],
     [speed |-> 25600, gps_sampling_rate |-> 0, gps_noise_std |-> 0,
      gps_drift_factor |-> 95, simulation_dt |-> 1]}

\* the durations generate_realistic_route is called with, the times
\* get_track_position_with_rotation is called with, and the number of
\* such calls between two resets
Durations == {0, 9}
PollTimes == {3, 4, 13}
MaxPolls == 2

get_position(r) == r.true_pos

\* the runner and the sensor the generator constructs.  Of the draws of
\* the two constructors the generator's runs follow those of the entry
\* position and of the drift along x; the others are followed in the runs
\* of the runner and of the sensor on their own.
NewRunner(c) ==
    {r \in RunnerInit(c.speed) :
        r.rest_trigger_laps = 3 /\ r.next_state_change = 180}
NewGPSSensor(c) ==
    {s \in GPSSensorInit(c.gps_sampling_rate, c.gps_noise_std,
                         c.gps_drift_factor) :
        s.long_term_drift_y = 0 /\ s.next_drift_change = 30}

\* the state a reset found (kept in .before until the loop starts)
seen(g, r, s) ==
    [simulation_time |-> g.simulation_time,
     updates |-> g.updates,
     cumulative_distance |-> r.cumulative_distance,
     noise_x |-> s.noise_x,
     last_sample_time |-> s.last_sample_time]

nothing_seen ==
    [simulation_time |-> 0, updates |-> 0, cumulative_distance |-> 0,
     noise_x |-> 0, last_sample_time |-> 0]

\* RouteGenerator.__init__.  The fields after gps_points record the calls:
\* the value last returned, the last call, the number of runner.update
\* calls since the runner was constructed, the last time polled and the
\* polls since the reset, the state the last reset found.
GeneratorInit(c) ==
    [track_config |-> c,
     simulation_time |-> 0,
     pc |-> "idle",
     duration |-> 0,
     gps_points |-> <<>>,
     returned |-> <<>>,
     call |-> "init",
     updates |-> 0,
     t |-> 0,
     polls |-> 0,
     before |-> nothing_seen]

\* the loop test of generate_realistic_route, and one that lets the loop
\* run at simulation_time = duration
loop_continues_at_end(simulation_time, duration) == simulation_time <= duration
loop_continues(simulation_time, duration) == simulation_time < duration

\* the GPS point recorded for a reading
gps_point(g, r, s) ==
    [latlon |-> [position |-> get_position(r), offset |-> s.gps],
     timestamp |-> g.simulation_time,
     speed |-> (r.base_speed * speed_multipliers(r.state)) \div 100,
     state |-> r.state,
     distance |-> r.cumulative_distance]

\* the fast-forward loop of get_track_position_with_rotation: the runners
\* and clocks it can end with, n counting the updates
RECURSIVE fast_forward(_, _, _, _, _)
fast_forward(r, simulation_time, n, t, dt) ==
    IF simulation_time < t
    THEN UNION {fast_forward(r1, simulation_time + dt, n + 1, t, dt) :
                   r1 \in update(r, dt)}
    ELSE {[runner |-> r, simulation_time |-> simulation_time, updates |-> n]}

\* the guard of the fast-forward passed whenever t is ahead of the clock
jumps_whenever_ahead(t, simulation_time, dt) == t > simulation_time

\* the guard of the fast-forward
jumps(t, simulation_time, dt) ==
    (IF t >= simulation_time THEN t - simulation_time ELSE simulation_time - t)
        > dt * 2

(* ------------------------------------------------------------------ *)
(* A generator under any sequence of generate and position calls        *)
(* ------------------------------------------------------------------ *)

GenInit ==
    /\ \E c \in TrackConfigs :
          /\ runner \in NewRunner(c)
          /\ gps_sensor \in NewGPSSensor(c)
          /\ generator = GeneratorInit(c)
    /\ random = None
    /\ track = Track

\* generate_realistic_route(duration), up to the loop
reset_keeps_sensor(c, duration) ==
    /\ runner' \in NewRunner(c)
    /\ gps_sensor' = gps_sensor
    /\ generator' = [generator EXCEPT !.simulation_time = 0,
                                      !.pc = "generate",
                                      !.duration = duration,
                                      !.gps_points = <<>>,
                                      !.returned = <<>>,
                                      !.call = "generate_start",
                                      !.updates = 0,
                                      !.t = 0,
                                      !.polls = 0,
                                      !.before = seen(generator, runner, gps_sensor)]

reset(c, duration) ==
    /\ runner' \in NewRunner(c)
    /\ gps_sensor' \in NewGPSSensor(c)
    /\ generator' = [generator EXCEPT !.simulation_time = 0,
                                      !.pc = "generate",
                                      !.duration = duration,
                                      !.gps_points = <<>>,
                                      !.returned = <<>>,
                                      !.call = "generate_start",
                                      !.updates = 0,
                                      !.t = 0,
                                      !.polls = 0,
                                      !.before = seen(generator, runner, gps_sensor)]

GenerateStart ==
    /\ generator.pc = "idle"
    /\ \E duration \in Durations : reset(generator.track_config, duration)
    /\ UNCHANGED <<random, track>>

\* one turn of the loop of generate_realistic_route
GenerateStep ==
    /\ generator.pc = "generate"
    /\ loop_continues(generator.simulation_time, generator.duration)
    /\ LET dt == generator.track_config.simulation_dt IN
       /\ runner' \in update(runner, dt)
       /\ \E s1 \in should_sample(gps_sensor, generator.simulation_time) :
             IF s1.result
             THEN /\ gps_sensor' \in get_gps_reading(s1, 0, 0)
                  /\ generator' =
                        [generator EXCEPT
                            !.gps_points =
                                Append(@, gps_point(generator, runner', gps_sensor')),
                            !.simulation_time = @ + dt,
                            !.updates = @ + 1,
                            !.before = nothing_seen,
                            !.call = "generate_step"]
             ELSE /\ gps_sensor' = s1
                  /\ generator' = [generator EXCEPT !.simulation_time = @ + dt,
                                                    !.updates = @ + 1,
                                                    !.before = nothing_seen,
                                                    !.call = "generate_step"]
    /\ UNCHANGED <<random, track>>

\* the loop is over: generate_realistic_route returns gps_points
GenerateReturn ==
    /\ generator.pc = "generate"
    /\ ~loop_continues(generator.simulation_time, generator.duration)
    /\ generator' = [generator EXCEPT !.pc = "idle",
                                      !.returned = generator.gps_points,
                                      !.gps_points = <<>>,
                                      !.before = nothing_seen,
                                      !.call = "generate_return"]
    /\ UNCHANGED <<runner, gps_sensor, random, track>>

\* get_track_position_with_rotation(t), for times t that move forward
GetTrackPosition ==
    /\ generator.pc = "idle"
    /\ generator.polls < MaxPolls
    /\ \E t \in PollTimes :
          /\ t > generator.t
          /\ LET dt == generator.track_config.simulation_dt
                 ends == IF jumps(t, generator.simulation_time, dt)
                         THEN fast_forward(runner, generator.simulation_time,
                                           generator.updates, t, dt)
                         ELSE {[runner |-> runner,
                                simulation_time |-> generator.simulation_time,
                                updates |-> generator.updates]}
             IN  \E e \in ends :
                    /\ runner' = e.runner
                    /\ \E s1 \in should_sample(gps_sensor, e.simulation_time) :
                          gps_sensor' \in get_gps_reading(s1, 0, 0)
                    /\ generator' =
                          [generator EXCEPT
                              !.simulation_time = e.simulation_time,
                              !.updates = e.updates,
                              !.t = t,
                              !.polls = @ + 1,
                              !.returned =
                                  <<[position |-> get_position(e.runner),
                                     offset |-> gps_sensor'.gps]>>,
                              !.call = "get_track_position"]
    /\ UNCHANGED <<random, track>>

GenNext == GenerateStart \/ GenerateStep \/ GenerateReturn \/ GetTrackPosition

GenSpec == GenInit /\ [][GenNext]_vars

(* ------------------------------------------------------------------ *)
(* The four constructors called with any arguments                      *)
(* ------------------------------------------------------------------ *)

\* arguments tried: lengths and arcs, base speeds, sampling rates, noise
\* deviations, drift factors (%) and simulation steps, valid and not
AnyLengths == {-8 * M, 0, 8 * M}
AnySpeeds == {-25600, 0, 25600}
AnySamplingRates == {-1, 0, 1}
AnyNoiseStds == {-45000, 0, 45000}
AnyDriftFactors == {-5, 0, 95, 100, 150}
AnySimulationDts == {-1, 0, 1}

\* math.pi * x, with pi as 355 / 113 (3.1415929), rounded down
pi_times(x) == (x * 355) \div 113

\* straight lengths and bend radii given to TrackGeometry: the defaults
\* 84.39 m and 36.5 m, and a short track
DefaultStraightLength == 843900
DefaultBandRadius == 365000
GivenStraightLengths == {DefaultStraightLength, 8 * M}
GivenBandRadii == {DefaultBandRadius, 4 * M}

\* TrackGeometry.__init__ with a lap of two straights and one bend
TrackGeometry_one_bend(straight_length_, band_radius) ==
    [straight_length |-> straight_length_,
     band_radius |-> band_radius,
     band_circumference |-> pi_times(band_radius),
     total_circumference |-> 2 * straight_length_ + pi_times(band_radius)]

\* TrackGeometry.__init__, the bend given by its radius
TrackGeometry(straight_length_, band_radius) ==
    [straight_length |-> straight_length_,
     band_radius |-> band_radius,
     band_circumference |-> pi_times(band_radius),
     total_circumference |->
         2 * straight_length_ + 2 * pi_times(band_radius)]

\* nothing is constructed; the state holds what the last call constructed
ConstructInit ==
    /\ runner = None
    /\ gps_sensor = None
    /\ generator = None
    /\ random = None
    /\ track = None

\* TrackGeometry(straight_length, band_radius)
ConstructTrackGeometry ==
    /\ \E l \in AnyLengths, a \in AnyLengths : track' = TrackGeometryInit(l, a)
    /\ runner' = None /\ gps_sensor' = None /\ generator' = None
    /\ UNCHANGED random

\* TrackGeometry(straight_length, band_radius) with a positive radius,
\* the default track among them
ConstructTrackGeometryOfRadius ==
    /\ \E l \in GivenStraightLengths, r \in GivenBandRadii :
           track' = TrackGeometry(l, r)
    /\ runner' = None /\ gps_sensor' = None /\ generator' = None
    /\ UNCHANGED random

\* RealisticRunner(track, base_speed), on the track of the runs
ConstructRealisticRunner ==
    /\ \E b \in AnySpeeds : runner' \in RunnerInit(b)
    /\ track' = Track
    /\ gps_sensor' = None /\ generator' = None
    /\ UNCHANGED random

\* GPSSensor(sampling_rate, noise_std, drift_factor)
ConstructGPSSensor ==
    /\ \E r \in AnySamplingRates, n \in AnyNoiseStds, f \in AnyDriftFactors :
          gps_sensor' \in {s \in GPSSensorInit(r, n, f) : s.next_drift_change = 30}
    /\ runner' = None /\ generator' = None /\ track' = None
    /\ UNCHANGED random

\* RouteGenerator(track_config)
ConstructRouteGenerator ==
    /\ \E b \in AnySpeeds, r \in AnySamplingRates, dt \in AnySimulationDts :
          LET c == [speed |-> b, gps_sampling_rate |-> r, gps_noise_std |-> 0,
                    gps_drift_factor |-> 95, simulation_dt |-> dt]
          IN  /\ runner' \in NewRunner(c)
              /\ gps_sensor' \in NewGPSSensor(c)
              /\ generator' = GeneratorInit(c)
    /\ track' = Track
    /\ UNCHANGED random

ConstructNext ==
    \/ ConstructTrackGeometry
    \/ ConstructTrackGeometryOfRadius
    \/ ConstructRealisticRunner
    \/ ConstructGPSSensor
    \/ ConstructRouteGenerator

ConstructSpec == ConstructInit /\ [][ConstructNext]_vars

(* ------------------------------------------------------------------ *)
(* The random module under a seed (route.py 11, 28-33, 157, 187)        *)
(*                                                                      *)
(* random holds the generator state of the random module (all draws of  *)
(* route.py come from it) and the wall clock int(time.time()).  What a  *)
(* run returns is a function of the numbers it draws; a run is followed *)
(* by the numbers drawn at its places of the file.                      *)
(* ------------------------------------------------------------------ *)

\* random.seed(a) and one draw: the state after the draw is the number drawn
random_seed(a) == a % 16
random_draw(state) == (5 * state + 3) % 16

\* seeds the caller injects, and the wall clock up to which time passes
Seeds == {1, 2}
MaxWallClock == 3

\* PerlinNoise(seed) with a seed (28-30)
PerlinNoise(seed) == random_seed(seed)

\* RealisticRunner.__init__: the draw of next_state_change (157), then
\* lane_noise = PerlinNoise(seed=int(time.time())) (187) and the draws
\* after it; the numbers drawn and the state left
RunnerDraws(state, time) ==
    LET d1 == random_draw(state)
        d2 == random_draw(PerlinNoise(time))
    IN  [drawn |-> <<d1, d2>>, state |-> d2]

\* GPSSensor.__init__ (705-708) and get_gps_reading (743-744): one draw each
SensorDraw(state) == [drawn |-> <<random_draw(state)>>, state |-> random_draw(state)]

SeedInit ==
    /\ random = [state |-> 0,
                 time |-> 0,
                 seed |-> 0,
                 call |-> "import",
                 drawn |-> <<>>,
                 first |-> [k \in {"generate", "sensor"} |->
                               [a \in Seeds |-> <<>>]]]
    /\ runner = None
    /\ gps_sensor = None
    /\ generator = None
    /\ track = None

\* the wall clock moves on
TimePasses ==
    /\ random.time < MaxWallClock
    /\ random' = [random EXCEPT !.time = @ + 1]
    /\ UNCHANGED <<runner, gps_sensor, generator, track>>

\* the caller injects a seed: random.seed(a)
InjectSeed ==
    /\ \E a \in Seeds :
          random' = [random EXCEPT !.state = random_seed(a),
                                   !.seed = a,
                                   !.call = "seed",
                                   !.drawn = <<>>]
    /\ UNCHANGED <<runner, gps_sensor, generator, track>>

\* the run of kind k with the numbers it drew, right after the seed
ran(k, as, drawn, state) ==
    [random EXCEPT !.state = state,
                   !.call = k,
                   !.drawn = drawn,
                   !.first[as][random.seed] = IF @ = <<>> THEN drawn ELSE @]

\* generate_realistic_route right after the seed: the runner, the sensor,
\* a reading
SeededGenerate ==
    /\ random.call = "seed"
    /\ LET r == RunnerDraws(random.state, random.time)
           s == SensorDraw(r.state)
           g == SensorDraw(s.state)
       IN  random' = ran("generate", "generate",
                         r.drawn \o s.drawn \o g.drawn, g.state)
    /\ UNCHANGED <<runner, gps_sensor, generator, track>>

\* a sensor constructed right after the seed and read
SeededSensor ==
    /\ random.call = "seed"
    /\ LET s == SensorDraw(random.state)
           g == SensorDraw(s.state)
       IN  random' = ran("sensor", "sensor", s.drawn \o g.drawn, g.state)
    /\ UNCHANGED <<runner, gps_sensor, generator, track>>

\* the same with a runner constructed between construction and reading;
\* the numbers kept are those of the sensor
SeededSensorRunnerBetween ==
    /\ random.call = "seed"
    /\ LET s == SensorDraw(random.state)
           r == RunnerDraws(s.state, random.time)
           g == SensorDraw(r.state)
       IN  random' = ran("sensor_runner_between", "sensor",
                         s.drawn \o g.drawn, g.state)
    /\ UNCHANGED <<runner, gps_sensor, generator, track>>

SeedNext ==
    \/ TimePasses
    \/ InjectSeed
    \/ SeededGenerate
    \/ SeededSensor
    \/ SeededSensorRunnerBetween

SeedSpec == SeedInit /\ [][SeedNext]_vars

(* ------------------------------------------------------------------ *)
(* RouteGenerator.get_route_statistics                                  *)
(* ------------------------------------------------------------------ *)
(* Sample lists lie on one meridian, where the haversine distance is    *)
(* the arc earth_radius * |delta_lat|: latitude is the arc length       *)
(* north of a reference point, in millimetres. Distances are reported   *)
(* in centimetres (round(x, 2) of metres), speeds in cm/s, paces in     *)
(* 0.01 min/km, timestamps and times in milliseconds.                   *)

\* the sample lists the statistics are computed for
Latitudes == {0, 4, 20000}
Timestamps == {0, 4, 2000}
PointStates == {RUNNING, RESTING}
MaxPoints == 3

\* round(a / b) for a >= 0, b > 0
round_div(a, b) == (2 * a + b) \div (2 * b)

Abs(a) == IF a >= 0 THEN a ELSE -a

\* RouteGenerator.calculate_distance on one meridian, rounded to 0.01 m
calculate_distance(lat1, lng1, lat2, lng2) ==
    round_div(Abs(lat2 - lat1), 10)

SamplePoints ==
    [latitude : Latitudes, longitude : {0}, timestamp : Timestamps,
     state : PointStates]

\* the lists of at most MaxPoints samples with timestamps in order
SampleLists ==
    {pts \in UNION {[1 .. n -> SamplePoints] : n \in 0 .. MaxPoints} :
        \A i \in 1 .. Len(pts) - 1 :
            pts[i].timestamp <= pts[i + 1].timestamp}

RECURSIVE sum_distance(_, _)
sum_distance(gps_points, i) ==
    IF i > Len(gps_points) THEN 0
    ELSE calculate_distance(gps_points[i - 1].latitude,
                            gps_points[i - 1].longitude,
                            gps_points[i].latitude,
                            gps_points[i].longitude)
         + sum_distance(gps_points, i + 1)

\* the state_times loop with each interval given to the state of its
\* later sample
RECURSIVE sum_state_time_later(_, _, _)
sum_state_time_later(gps_points, state, i) ==
    IF i > Len(gps_points) THEN 0
    ELSE (IF gps_points[i].state = state
          THEN gps_points[i].timestamp - gps_points[i - 1].timestamp
          ELSE 0)
         + sum_state_time_later(gps_points, state, i + 1)

\* the state_times loop (route.py 965-970)
RECURSIVE sum_state_time(_, _, _)
sum_state_time(gps_points, state, i) ==
    IF i > Len(gps_points) THEN 0
    ELSE (IF gps_points[i - 1].state = state
          THEN gps_points[i].timestamp - gps_points[i - 1].timestamp
          ELSE 0)
         + sum_state_time(gps_points, state, i + 1)

\* what a division by zero leaves: the exception, no dictionary
ZeroDivisionError == [raised |-> "ZeroDivisionError"]

\* round(x, 2) of a time x >= 0 in seconds
round_to_hundredths(ms) == 10 * round_div(ms, 10)

\* the dictionary returned (route.py 972-979)
statistics(total_distance, duration, gps_points, avg_speed, pace) ==
    [total_distance |-> total_distance,
     duration |-> round_to_hundredths(duration),
     average_speed |-> avg_speed,
     average_pace |-> pace,
     point_count |-> Len(gps_points),
     state_times |->
         [state \in RunnerState |-> sum_state_time(gps_points, state, 2)]]

\* get_route_statistics with both divisions made unconditionally
get_route_statistics_unguarded(gps_points) ==
    LET total_distance == sum_distance(gps_points, 2)
        duration == IF gps_points = <<>> THEN 0
                    ELSE gps_points[Len(gps_points)].timestamp
                             - gps_points[1].timestamp
    IN  IF duration = 0 \/ total_distance = 0 THEN ZeroDivisionError
        ELSE statistics(total_distance, duration, gps_points,
                        round_div(1000 * total_distance, duration),
                        round_div(100 * 100 * duration,
                                  total_distance * 60))

\* get_route_statistics: {} for no samples; avg_speed is the quotient
\* total_distance / duration, and average_pace is 1000 / (avg_speed * 60)
get_route_statistics(gps_points) ==
    IF gps_points = <<>> THEN [empty |-> TRUE]
    ELSE
    LET total_distance == sum_distance(gps_points, 2)
        duration == gps_points[Len(gps_points)].timestamp
                        - gps_points[1].timestamp
        \* avg_speed > 0 exactly when duration > 0 and total_distance > 0
        avg_speed_positive == duration > 0 /\ total_distance > 0
    IN  statistics(total_distance, duration, gps_points,
                   IF duration > 0
                   THEN round_div(1000 * total_distance, duration) ELSE 0,
                   IF avg_speed_positive
                   THEN round_div(100 * 100 * duration,
                                  total_distance * 60)
                   ELSE 0)

\* a generator about to be asked for the statistics of a sample list
StatsInit ==
    /\ generator \in {[call |-> "init", gps_points |-> gps_points,
                        returned |-> [empty |-> TRUE]] :
                           gps_points \in SampleLists}
    /\ runner = None
    /\ gps_sensor = None
    /\ random = None
    /\ track = None

\* one call of get_route_statistics(gps_points)
GetRouteStatistics ==
    /\ generator' = [call |-> "get_route_statistics",
                     gps_points |-> generator.gps_points,
                     returned |-> get_route_statistics(generator.gps_points)]
    /\ UNCHANGED <<runner, gps_sensor, random, track>>

StatsNext == GetRouteStatistics

StatsSpec == StatsInit /\ [][StatsNext]_vars

(* ------------------------------------------------------------------ *)
(* TrackGeometry queried for positions                                  *)
(* ------------------------------------------------------------------ *)

\* the distances and lane offsets the track is asked about: every whole
\* metre of the first lap, both of its ends included
QueryDistances == {a * M : a \in 0 .. (total_circumference \div M)}
QueryLanes == {-3000, 0, 15000}
QueryLaps == 0 .. 2

\* the point of get_position_on_track without the normalisation
track_point_unwrapped(distance, lane_radius_offset) ==
    LET d == distance IN
    IF d <= straight_length
    THEN [phase |-> 1, along |-> d, lane |-> lane_radius_offset]
    ELSE IF d <= straight_length + band_circumference
    THEN [phase |-> 2, along |-> d - straight_length,
          lane |-> lane_radius_offset]
    ELSE IF d <= 2 * straight_length + band_circumference
    THEN [phase |-> 3,
          along |-> d - (straight_length + band_circumference),
          lane |-> lane_radius_offset]
    ELSE [phase |-> 4,
          along |-> d - (2 * straight_length + band_circumference),
          lane |-> lane_radius_offset]

\* get_position_on_track by its four phases: the right straight
\* (x = straight_length / 2 - along), the upper bend (angle = along /
\* band_radius), the left straight and the lower bend, each at the
\* effective radius band_radius + lane_radius_offset
track_point(distance, lane_radius_offset) ==
    LET d == distance % total_circumference IN
    IF d <= straight_length
    THEN [phase |-> 1, along |-> d, lane |-> lane_radius_offset]
    ELSE IF d <= straight_length + band_circumference
    THEN [phase |-> 2, along |-> d - straight_length,
          lane |-> lane_radius_offset]
    ELSE IF d <= 2 * straight_length + band_circumference
    THEN [phase |-> 3,
          along |-> d - (straight_length + band_circumference),
          lane |-> lane_radius_offset]
    ELSE [phase |-> 4,
          along |-> d - (2 * straight_length + band_circumference),
          lane |-> lane_radius_offset]

\* everything the track answers about one distance
track_answers(distance, lane_radius_offset) ==
    [position |-> get_position_on_track(distance, lane_radius_offset),
     point |-> track_point(distance, lane_radius_offset),
     in_curve |-> is_in_curve(distance),
     curve_exit_point |-> get_curve_exit_point(distance)]

\* a track about to be asked for a distance in one of its laps
QueryInit ==
    /\ track \in {[geometry |-> Track, call |-> "init",
                   distance |-> d, lane |-> lane, lap |-> k,
                   answers |-> None] :
                      d \in QueryDistances, lane \in QueryLanes,
                      k \in QueryLaps}
    /\ runner = None
    /\ gps_sensor = None
    /\ generator = None
    /\ random = None

\* get_position_on_track, is_in_curve and get_curve_exit_point called
\* with the distance moved on by the whole laps
GetPositionOnTrack ==
    /\ track' = [track EXCEPT
           !.call = "get_position_on_track",
           !.answers = track_answers(
               track.distance + track.lap * total_circumference,
               track.lane)]
    /\ UNCHANGED <<runner, gps_sensor, generator, random>>

QueryNext == GetPositionOnTrack

QuerySpec == QueryInit /\ [][QueryNext]_vars

(* ------------------------------------------------------------------ *)
(* A run of sixty seconds on a fresh runner                             *)
(* ------------------------------------------------------------------ *)

\* the steps of the run and its length (s)
SteadyDts == {5}
RunSeconds == 60

\* the seconds of update calls made so far: those of the approach, which
\* walking_progress counts at walking_speed, and total_time
elapsed(r) == r.walking_progress \div walking_speed + r.total_time

\* RealisticRunner(track, base_speed=2.56)
SteadyInit ==
    /\ runner \in {r \in RunnerInit(25600) : r.rest_trigger_laps = 3}
    /\ gps_sensor = None
    /\ generator = None
    /\ random = None
    /\ track = Track

\* for step in range(steps): runner.update(dt)
SteadyUpdate ==
    /\ \E dt \in SteadyDts :
          /\ elapsed(runner) + dt <= RunSeconds
          /\ runner' \in update(runner, dt)
    /\ UNCHANGED <<gps_sensor, generator, random, track>>

SteadyNext == SteadyUpdate

SteadySpec == SteadyInit /\ [][SteadyNext]_vars

(* ------------------------------------------------------------------ *)
(* The dwell timer on its own (route.py 370-373, 469-496)               *)
(* ------------------------------------------------------------------ *)

\* the steps the dwell timer is advanced by
DwellDts == {5, 10}

\* a runner on the course that has just entered a pacing state: the
\* timer at 0 and the threshold drawn from the state's durations.  The
\* dwell step reads no other field.
DwellInit ==
    /\ runner \in
          UNION {UNION {{[r EXCEPT !.walking_to_track = FALSE,
                                   !.state = s,
                                   !.next_state_change = d,
                                   !.has_rested_ever = (s = RESTING),
                                   !.rest_triggered_this_lap = (s = RESTING)] :
                            d \in draw_duration(s)} :
                        s \in RunnerState} :
                 r \in {i \in RunnerInit(25600) :
                           /\ i.rest_trigger_laps = 3
                           /\ i.next_state_change = 180}}
    /\ gps_sensor = None
    /\ generator = None
    /\ random = None
    /\ track = Track

\* step 3 of update(dt)
DwellStep ==
    /\ \E dt \in DwellDts :
          runner' \in state_step([runner EXCEPT !.events = {}], dt)
    /\ UNCHANGED <<gps_sensor, generator, random, track>>

DwellNext == DwellStep

DwellSpec == DwellInit /\ [][DwellNext]_vars

(* ------------------------------------------------------------------ *)
(* The runner under update calls that never cease                       *)
(* ------------------------------------------------------------------ *)

\* the steps of the calls (all positive), the run time followed, and the
\* run time up to which a corner cut is followed to its end
LiveDts == {10}
LiveMaxTime == 100
LiveCutStartTime == 50

LiveInit ==
    /\ runner \in {r \in RunnerInit(25600) :
                      r.rest_trigger_laps = 3 /\ r.next_state_change = 180}
    /\ gps_sensor = None
    /\ generator = None
    /\ random = None
    /\ track = Track

\* update(dt), dt > 0
LiveUpdate ==
    /\ \E dt \in LiveDts :
          /\ runner.total_time + dt <= LiveMaxTime
          /\ runner' \in update(runner, dt)
    /\ UNCHANGED <<gps_sensor, generator, random, track>>

LiveNext == LiveUpdate

\* the caller goes on calling update
LiveSpec == LiveInit /\ [][LiveNext]_vars /\ WF_vars(LiveUpdate)

(* ------------------------------------------------------------------ *)
(* The approach under a caller's loop of update(dt)                     *)
(* ------------------------------------------------------------------ *)

\* the steps dt of the callers (s, all positive)
ApproachDts == {1, 5, 10}

\* ceil(a / b) for a >= 0, b > 0
ceil_div(a, b) == (a + b - 1) \div b

\* a fresh runner and a caller about to loop over update(dt): the caller
\* is kept by its step and by the number of calls it has made
ApproachInit ==
    /\ runner \in UNION {RunnerInit(b) : b \in BaseSpeeds}
    /\ generator \in {[dt |-> dt, step |-> 0] : dt \in ApproachDts}
    /\ gps_sensor = None
    /\ random = None
    /\ track = Track

\* runner.update(dt) during the approach
ApproachUpdate ==
    /\ runner.walking_to_track
    /\ runner' \in update(runner, generator.dt)
    /\ generator' = [generator EXCEPT !.step = @ + 1]
    /\ UNCHANGED <<gps_sensor, random, track>>

\* the first runner.update(dt) after the approach
FirstRunUpdate ==
    /\ ~runner.walking_to_track
    /\ runner.total_time = 0
    /\ runner' \in update(runner, generator.dt)
    /\ generator' = [generator EXCEPT !.step = @ + 1]
    /\ UNCHANGED <<gps_sensor, random, track>>

ApproachNext == ApproachUpdate \/ FirstRunUpdate

\* the caller goes on calling update
ApproachSpec ==
    ApproachInit /\ [][ApproachNext]_vars /\ WF_vars(ApproachNext)

(* ------------------------------------------------------------------ *)
(* The runner in steps finer than the pace check interval               *)
(* ------------------------------------------------------------------ *)

\* the step of the calls and the run time followed (s)
RestDts == {5}
RestMaxTime == 80

RestInit ==
    /\ runner \in {r \in RunnerInit(25600) :
                      r.rest_trigger_laps = 3 /\ r.next_state_change = 180}
    /\ gps_sensor = None
    /\ generator = None
    /\ random = None
    /\ track = Track

\* update(dt)
RestUpdate ==
    /\ \E dt \in RestDts :
          /\ runner.total_time + dt <= RestMaxTime
          /\ runner' \in update(runner, dt)
    /\ UNCHANGED <<gps_sensor, generator, random, track>>

RestNext == RestUpdate

RestSpec == RestInit /\ [][RestNext]_vars

(* ------------------------------------------------------------------ *)
(* get_track_position_with_rotation called with any times               *)
(* (route.py 981-1027)                                                  *)
(* ------------------------------------------------------------------ *)

\* the times polled, forwards or backwards
AnyPollTimes == {0, 3, 4, 13}

\* get_track_position_with_rotation(t): the runner, the sensor and the
\* generator after the call
get_track_position_with_rotation(g, r, s, t) ==
    LET dt == g.track_config.simulation_dt
        ends == IF jumps(t, g.simulation_time, dt)
                THEN fast_forward(r, g.simulation_time, g.updates, t, dt)
                ELSE {[runner |-> r,
                       simulation_time |-> g.simulation_time,
                       updates |-> g.updates]}
    IN  UNION {{[runner |-> e.runner,
                 gps_sensor |-> s2,
                 generator |->
                    [g EXCEPT !.simulation_time = e.simulation_time,
                              !.updates = e.updates,
                              !.t = t,
                              !.polls = @ + 1,
                              !.returned = <<[position |-> get_position(e.runner),
                                              offset |-> s2.gps]>>,
                              !.call = "get_track_position"]] :
                  s2 \in Bind(should_sample(s, e.simulation_time),
                              LAMBDA s1 : get_gps_reading(s1, 0, 0))} :
               e \in ends}

PollInit == GenInit

PollPosition ==
    /\ generator.polls < MaxPolls
    /\ \E t \in AnyPollTimes :
          \E o \in get_track_position_with_rotation(generator, runner,
                                                    gps_sensor, t) :
             /\ runner' = o.runner
             /\ gps_sensor' = o.gps_sensor
             /\ generator' = o.generator
    /\ UNCHANGED <<random, track>>

PollNext == PollPosition

PollSpec == PollInit /\ [][PollNext]_vars

(* ------------------------------------------------------------------ *)
(* Properties                                                           *)
(* ------------------------------------------------------------------ *)

lap_of(r) == r.cumulative_distance \div total_circumference

\* C1: cumulative distance never decreases: no update call (approach step,
\* normal step, pace check, rest trigger, corner-cut start, step or
\* completion) leaves cumulative_distance smaller than it found it.
C1_DistanceNonDecreasing ==
    [][runner'.cumulative_distance >= runner.cumulative_distance]_vars

\* a run that has advanced, has rested and finishes a corner cut
C1_Witness ==
    /\ runner.cumulative_distance > 0
    /\ runner.has_rested_ever
    /\ "cut_finished" \in runner.events

\* C2 (as claimed): once more than 30 s of run time have elapsed, the
\* average speed cumulative_distance / total_time is at least
\* target_min_speed, whatever the base speed.
C2_AverageAboveFloor ==
    runner.total_time > 30 =>
        ~below(runner.cumulative_distance, runner.total_time, target_min_speed)

\* C3: at most one rest per run: _trigger_rest runs at most once, and once
\* has_rested_ever is set it stays set and no later update rests again.
C3_AtMostOneRest ==
    [][/\ runner'.rest_count <= 1
       /\ runner.has_rested_ever =>
             /\ runner'.has_rested_ever
             /\ runner'.rest_count = runner.rest_count
             /\ "rest" \notin runner'.events]_vars

\* the rest is over and the runner is still in the lap drawn for it
C3_Witness ==
    /\ runner.has_rested_ever
    /\ runner.state # RESTING
    /\ "rest" \notin runner.events
    /\ lap_of(runner) = runner.rest_trigger_laps

\* C4: RESTING always exits to RUNNING: whenever an update took the state
\* out of RESTING (by dwell expiry in _change_state or by the pace check,
\* both tagged "rest_over"), the state it leaves is RUNNING.
C4_RestExitsToRunning ==
    "rest_over" \in runner.events => runner.state = RUNNING

\* C4 (amended): an update (dt below 15 s) that took the state out of
\* RESTING leaves it RUNNING, or JOGGING when the pace check found the
\* average below target_avg_speed and picked JOGGING; never WALKING.
C4_RestExitsToRunningOrSpedUp ==
    "rest_over" \in runner.events
        => \/ runner.state = RUNNING
           \/ /\ runner.state = JOGGING
              /\ "sped_up" \in runner.events

\* a rest that the pace check ended with JOGGING
C4_Witness ==
    /\ runner.state = JOGGING
    /\ {"sped_up", "rest_over"} \subseteq runner.events

\* a rest that ended by dwell expiry, and one that the pace check ended
\* because the average was below target_min_speed
C4_ExpiryReached ==
    /\ runner.state = RUNNING
    /\ {"changed", "rest_over"} \subseteq runner.events
C4_ForcedReached ==
    /\ runner.state = RUNNING
    /\ {"forced_running", "rest_over"} \subseteq runner.events

\* C5: RESTING is entered only by the rest trigger: an update that takes
\* the state from another state to RESTING ran _trigger_rest, which set
\* has_rested_ever for the first time.
C5_RestOnlyByTrigger ==
    [][runner.state # RESTING /\ runner'.state = RESTING
          => /\ "rest" \in runner'.events
             /\ ~runner.has_rested_ever
             /\ runner'.has_rested_ever]_vars

\* an update that triggered the rest has returned with the state RESTING
C5_Witness ==
    /\ runner.state = RESTING
    /\ "rest" \in runner.events
    /\ runner.rest_count = 1

\* dwell expiries and pace checks that changed the state without resting
C5_OtherChangesReached ==
    /\ runner.state = WALKING
    /\ "changed" \in runner.events

\* C6 (as claimed): an update whose pace check was due and found the
\* average below target_min_speed returns with the state RUNNING.
C6_TooSlowEndsRunning ==
    [][("too_slow" \in runner'.events \/ "forced_running" \in runner'.events)
          => runner'.state = RUNNING]_vars

\* C7: while a corner cut is active no new one starts: its start point,
\* target point and path stay as they are and its progress never goes back.
C7_OneCutAtATime ==
    [][runner.cutting_corner
          => /\ "cut_started" \notin runner'.events
             /\ runner'.corner_start_pos = runner.corner_start_pos
             /\ runner'.corner_target_pos = runner.corner_target_pos
             /\ runner'.corner_path_length = runner.corner_path_length
             /\ runner'.corner_progress >= runner.corner_progress]_vars

\* a cut under way, at a place of the track where cuts may start
C7_Witness ==
    /\ runner.cutting_corner
    /\ runner.corner_progress > 0
    /\ "cut_started" \notin runner.events
    /\ can_cut(runner)

\* C8 (as claimed): the update that completes a corner cut sets
\* cumulative_distance and lane_offset to the target distance and lane
\* chosen when the cut started, and the position to the target point.
C8_CutSnapsToTarget ==
    [][("cut_finished" \in runner'.events)
          => /\ ~runner'.cutting_corner
             /\ runner'.true_pos = runner'.corner_target_pos
             /\ runner'.cumulative_distance = runner'.corner_target_distance
             /\ runner'.lane_offset = runner'.corner_target_lane]_vars

\* C9: during the approach update changes walking_progress and the
\* position only.
C9_ApproachFrame ==
    [][runner.walking_to_track
          => /\ runner'.total_time = runner.total_time
             /\ runner'.last_pace_check_time = runner.last_pace_check_time
             /\ runner'.cumulative_distance = runner.cumulative_distance
             /\ runner'.state = runner.state
             /\ runner'.state_time = runner.state_time
             /\ runner'.next_state_change = runner.next_state_change
             /\ runner'.lane_offset = runner.lane_offset
             /\ runner'.target_lane_offset = runner.target_lane_offset
             /\ runner'.current_lap = runner.current_lap
             /\ runner'.has_rested_ever = runner.has_rested_ever
             /\ runner'.rest_count = runner.rest_count
             /\ runner'.cutting_corner = runner.cutting_corner
             /\ runner'.corner_progress = runner.corner_progress
             /\ runner'.corner_path_length = runner.corner_path_length
             /\ runner'.corner_start_pos = runner.corner_start_pos
             /\ runner'.corner_target_pos = runner.corner_target_pos
             /\ runner'.last_corner_cut_distance = runner.last_corner_cut_distance
             /\ runner'.events \subseteq {"arrived"}]_vars

\* an approach step that moved the runner without reaching the track
C9_Witness ==
    /\ runner.walking_to_track
    /\ runner.walking_progress > 0
    /\ runner.true_pos = path_point("walking", runner.walking_progress)

\* C10: the approach comes first and once: walking_to_track is set exactly
\* as long as the path is not walked to its end, nothing else has happened
\* while it is set, it is cleared with the position at the entry point, and
\* it is never set again.
C10_ApproachOnce ==
    /\ [](runner.walking_to_track <=>
              runner.walking_progress < runner.walking_path_length)
    /\ [](runner.walking_to_track =>
              /\ runner.total_time = 0
              /\ runner.cumulative_distance = 0
              /\ runner.state = RUNNING /\ runner.state_time = 0
              /\ ~runner.cutting_corner /\ ~runner.has_rested_ever)
    /\ [][/\ ~runner.walking_to_track => ~runner'.walking_to_track
          /\ runner.walking_to_track /\ ~runner'.walking_to_track
                => runner'.true_pos = runner.track_entry_position]_vars

\* the runner has just arrived at the entry point
C10_Witness ==
    /\ ~runner.walking_to_track
    /\ "arrived" \in runner.events
    /\ runner.true_pos = runner.track_entry_position

\* C11: the lateral offset stays within [-3.5, 3.5] m in every reachable
\* state of the runner, whatever laps, lane adjustments, bend bias and
\* corner cuts the updates went through.
C11_LaneOffsetBounded ==
    /\ runner.lane_offset >= -35000
    /\ runner.lane_offset <= 35000

\* the offset stopped at 3.5 m on its way to a target beyond it
C11_Witness ==
    /\ ~runner.walking_to_track
    /\ runner.lane_offset = 35000
    /\ runner.target_lane_offset > 35000

\* C14: should_sample returns True at most once per sampling interval: of
\* the calls made on one sensor with non-decreasing current_time, a call
\* that returns True is at least sampling_rate later than the one that
\* returned True before it (hence than every earlier one).
C14_OncePerInterval ==
    gps_sensor.earlier_true_time # -1
        => gps_sensor.true_time - gps_sensor.earlier_true_time
               >= gps_sensor.sampling_rate

\* a second True, one positive interval after the first, and a call that
\* came too early and returned False
C14_Witness ==
    /\ gps_sensor.call = "should_sample"
    /\ gps_sensor.result
    /\ gps_sensor.sampling_rate > 0
    /\ gps_sensor.earlier_true_time # -1
    /\ gps_sensor.true_time - gps_sensor.earlier_true_time
           = gps_sensor.sampling_rate
C14_TooEarlyReached ==
    /\ gps_sensor.call = "should_sample"
    /\ ~gps_sensor.result
    /\ gps_sensor.true_time # -1
    /\ gps_sensor.current_time > gps_sensor.true_time

\* C15: the long-term drift is within +/-5 m on each axis in every state
\* of the sensor, from construction onwards.
C15_DriftBounded ==
    /\ gps_sensor.long_term_drift_x >= -5 * M
    /\ gps_sensor.long_term_drift_x <= 5 * M
    /\ gps_sensor.long_term_drift_y >= -5 * M
    /\ gps_sensor.long_term_drift_y <= 5 * M

\* C20: every get_gps_reading call, whatever should_sample returned,
\* replaces the noise memory by factor * previous + (1 - factor) * fresh
\* on each axis (to the unit), returns true position + long-term drift +
\* the new noise, and leaves the long-term drift, the drift timer and
\* last_sample_time alone; with noise_std = 0 the reading is the true
\* position + the long-term drift.
C20_ReadingBlendsNoise ==
    [][gps_sensor'.call = "get_gps_reading"
          => LET f == gps_sensor.drift_factor
                 fits(new, old) ==
                     \E fresh \in gauss(0, gps_sensor.noise_std) :
                        /\ 100 * new <= f * old + (100 - f) * fresh
                        /\ f * old + (100 - f) * fresh < 100 * new + 100
             IN  /\ fits(gps_sensor'.noise_x, gps_sensor.noise_x)
                 /\ fits(gps_sensor'.noise_y, gps_sensor.noise_y)
                 /\ \E p \in TruePositions :
                       gps_sensor'.gps =
                           <<p[1] + gps_sensor.long_term_drift_x
                                  + gps_sensor'.noise_x,
                             p[2] + gps_sensor.long_term_drift_y
                                  + gps_sensor'.noise_y>>
                 /\ gps_sensor.noise_std = 0
                       => \E p \in TruePositions :
                             gps_sensor'.gps =
                                 <<p[1] + gps_sensor.long_term_drift_x,
                                   p[2] + gps_sensor.long_term_drift_y>>
                 /\ gps_sensor'.long_term_drift_x = gps_sensor.long_term_drift_x
                 /\ gps_sensor'.long_term_drift_y = gps_sensor.long_term_drift_y
                 /\ gps_sensor'.drift_change_timer = gps_sensor.drift_change_timer
                 /\ gps_sensor'.next_drift_change = gps_sensor.next_drift_change
                 /\ gps_sensor'.last_sample_time = gps_sensor.last_sample_time]_vars

\* a second reading that carries noise memory, taken after should_sample
\* returned False, and a reading of a sensor without noise
C20_Witness ==
    /\ gps_sensor.call = "get_gps_reading"
    /\ gps_sensor.readings = 2
    /\ gps_sensor.noise_x # 0
    /\ gps_sensor.current_time > 0
    /\ ~gps_sensor.result
C20_NoNoiseReached ==
    /\ gps_sensor.call = "get_gps_reading"
    /\ gps_sensor.noise_std = 0
    /\ gps_sensor.long_term_drift_x # 0
    /\ gps_sensor.gps = <<10 * M + gps_sensor.long_term_drift_x,
                          -5 * M + gps_sensor.long_term_drift_y>>

\* C12: generate_realistic_route(T), T > 0, returns points whose
\* timestamps are strictly increasing, consecutive ones at least one
\* sampling interval and at most one interval plus one simulation step
\* apart, the last one less than T + interval.
C12_TimestampsSpaced ==
    (generator.call = "generate_return" /\ generator.duration > 0)
        => LET pts == generator.returned
               rate == generator.track_config.gps_sampling_rate
               dt == generator.track_config.simulation_dt
           IN  /\ \A i \in 1 .. Len(pts) - 1 :
                     /\ pts[i + 1].timestamp > pts[i].timestamp
                     /\ pts[i + 1].timestamp - pts[i].timestamp >= rate
                     /\ pts[i + 1].timestamp - pts[i].timestamp <= rate + dt
               /\ Len(pts) > 0
                     => pts[Len(pts)].timestamp < generator.duration + rate

\* a route returned with two points further apart than the interval
C12_Witness ==
    /\ generator.call = "generate_return"
    /\ generator.duration > 0
    /\ Len(generator.returned) = 2
    /\ generator.returned[2].timestamp - generator.returned[1].timestamp
           > generator.track_config.gps_sampling_rate
C12_EveryStepReached ==
    /\ generator.call = "generate_return"
    /\ generator.track_config.gps_sampling_rate = 0
    /\ Len(generator.returned) = 9

\* C13: generate_realistic_route(0) returns the empty list, having applied
\* no update to the runner and taken no sample.
C13_ZeroDurationEmpty ==
    (generator.call = "generate_return" /\ generator.duration = 0)
        => /\ generator.returned = <<>>
           /\ generator.updates = 0
           /\ runner.walking_progress = 0
           /\ gps_sensor.call = "init"

\* generate_realistic_route(0) returned
C13_Witness ==
    /\ generator.call = "generate_return"
    /\ generator.duration = 0
    /\ generator.pc = "idle"
    /\ generator.returned = <<>>

\* the number of updates a single get_track_position_with_rotation(t) on a
\* generator just constructed applies
updates_of_one_call(t, dt) ==
    IF jumps(t, 0, dt) THEN (t + dt - 1) \div dt ELSE 0

\* C16: get_track_position_with_rotation is cadence-independent: when the
\* call for time t returns, the runner has had the updates that one call
\* for t on a generator just constructed applies, whatever calls for
\* earlier times came before.
C16_CadenceIndependent ==
    generator.call = "get_track_position"
        => generator.updates
               = updates_of_one_call(generator.t,
                                     generator.track_config.simulation_dt)

\* C19: generate_realistic_route resets the run: when its loop is about to
\* start the clock is 0, the runner is a new one (approach active, no
\* distance, no time, RUNNING, no rest, no corner cut) and the sensor is a
\* new one (no noise, last_sample_time 0), whatever was called before.
C19_GenerateResets ==
    generator.call = "generate_start"
        => /\ generator.simulation_time = 0
           /\ generator.gps_points = <<>>
           /\ runner.walking_to_track
           /\ runner.walking_progress = 0
           /\ runner.cumulative_distance = 0
           /\ runner.total_time = 0
           /\ runner.state = RUNNING
           /\ ~runner.has_rested_ever
           /\ ~runner.cutting_corner
           /\ gps_sensor.noise_x = 0
           /\ gps_sensor.noise_y = 0
           /\ gps_sensor.last_sample_time = 0
           /\ gps_sensor.drift_change_timer = 0

\* a reset that found a runner on the course, a clock that had advanced
\* and a sensor with noise memory and a sample taken
C19_Witness ==
    /\ generator.call = "generate_start"
    /\ generator.before.simulation_time > 0
    /\ generator.before.cumulative_distance > 0
    /\ generator.before.noise_x # 0
    /\ generator.before.last_sample_time > 0

\* C18: construction validates its arguments: no geometry exists with a
\* non-positive straight length or bend, no runner with a non-positive
\* base speed, no sensor with a negative sampling rate or noise deviation
\* or a drift factor outside [0, 1], no generator with a non-positive
\* simulation step.
C18_InvalidRejected ==
    /\ track # None
          => track.straight_length > 0 /\ track.band_circumference > 0
    /\ runner # None => runner.base_speed > 0
    /\ gps_sensor # None
          => /\ gps_sensor.sampling_rate >= 0
             /\ gps_sensor.noise_std >= 0
             /\ gps_sensor.drift_factor \in 0 .. 100
    /\ generator # None => generator.track_config.simulation_dt > 0

\* C17: determinism under a seed: a generate run right after seed a draws
\* the numbers the first such run after seed a drew, and so does a sensor
\* constructed and read after seed a, whatever the wall clock shows and
\* whether or not a runner was constructed in between.
C17_SeededRunsRepeat ==
    /\ random.call = "generate"
          => random.drawn = random.first["generate"][random.seed]
    /\ random.call \in {"sensor", "sensor_runner_between"}
          => random.drawn = random.first["sensor"][random.seed]

\* C21: get_route_statistics guards the zero cases: for a sample list
\* whose total distance or whose duration is zero (a single sample
\* included) it reports average speed 0 and pace 0 and raises nothing,
\* and for the empty list it returns the empty dictionary.
C21_ZeroCasesGuarded ==
    generator.call = "get_route_statistics" =>
        LET pts == generator.gps_points
            out == generator.returned
        IN  /\ out # ZeroDivisionError
            /\ pts = <<>> => out = [empty |-> TRUE]
            /\ pts # <<>> =>
                  /\ out.point_count = Len(pts)
                  /\ (\/ pts[Len(pts)].timestamp = pts[1].timestamp
                      \/ \A i \in 1 .. Len(pts) - 1 :
                            calculate_distance(pts[i].latitude, 0,
                                               pts[i + 1].latitude, 0) = 0)
                     => out.average_speed = 0 /\ out.average_pace = 0

\* statistics of two samples apart in time and nowhere apart in place, and
\* so of zero distance over a positive duration
C21_Witness ==
    /\ generator.call = "get_route_statistics"
    /\ Len(generator.gps_points) = 2
    /\ generator.returned.duration > 0
    /\ generator.returned.total_distance = 0
    /\ generator.returned.average_pace = 0

\* statistics with a positive speed and pace are reached as well
C21_PositiveReached ==
    /\ generator.call = "get_route_statistics"
    /\ generator.returned # [empty |-> TRUE]
    /\ generator.returned.average_speed > 0
    /\ generator.returned.average_pace > 0

\* C22: the position on the course is periodic in the distance: the
\* answers for d + k * total_circumference are the answers for d, for
\* every lane offset; a distance of exactly one lap gives the phase and
\* point of distance 0, the start of the right straight.
C22_PositionPeriodic ==
    track.call = "get_position_on_track" =>
        /\ track.answers = track_answers(track.distance, track.lane)
        /\ track.answers.point.lane = track.lane
        /\ track.distance = total_circumference =>
              /\ track.answers.point.phase = 1
              /\ track.answers.point.along = 0
              /\ ~track.answers.in_curve

\* the answers for a point of the lower bend two laps on
C22_Witness ==
    /\ track.call = "get_position_on_track"
    /\ track.lap = 2
    /\ track.answers.point.phase = 4
    /\ track.answers.in_curve
    /\ track.answers.curve_exit_point = 0

\* the answers for exactly one lap, asked in the lap after the first
C22_WholeLapReached ==
    /\ track.call = "get_position_on_track"
    /\ track.distance = total_circumference
    /\ track.lap = 1

steady_run_over ==
    /\ \A dt \in SteadyDts : elapsed(runner) + dt > RunSeconds
    /\ ~runner.walking_to_track
    /\ runner.state = RUNNING
    /\ runner.state_time = runner.total_time
    /\ runner.rest_count = 0
    /\ ~runner.cutting_corner
    /\ runner.last_corner_cut_distance < 0

\* C24: with base_speed 2.56 and no change of state, a run of 60 s of
\* update calls on a fresh runner ends with the distance of the seconds
\* left after the approach at 2.56 * 1.45 m/s, within the 5 % of the
\* speed variation: 158.7 m to 175.4 m after an approach of 15 s.
C24_SteadyRunDistance ==
    steady_run_over =>
        /\ runner.base_speed = 25600
        /\ runner.cumulative_distance >= 35264 * runner.total_time
        /\ runner.cumulative_distance <= 38976 * runner.total_time
        /\ runner.total_time < RunSeconds

\* the same with the stated value: the run ends within 5 % of
\* 2.56 * 60 = 153.6 m
C24_SteadyRunIs153 ==
    steady_run_over =>
        /\ 100 * runner.cumulative_distance >= 95 * 1536 * (M \div 10)
        /\ 100 * runner.cumulative_distance <= 105 * 1536 * (M \div 10)

\* a run of 60 s that ended with nine steps on the course and no change of
\* state
C24_Witness ==
    /\ steady_run_over
    /\ runner.total_time = 45
    /\ runner.cumulative_distance > 160 * M

\* C25: a transition at the expiry of the dwell time follows the table:
\* from RUNNING or JOGGING to RUNNING, JOGGING or WALKING, from WALKING to
\* RUNNING or JOGGING, from RESTING to RUNNING; it sets state_time to 0
\* and draws next_state_change from the durations of the new state.
C25_DwellExpiryFollowsTable ==
    [][("changed" \in runner'.events) =>
          /\ runner.state \in {RUNNING, JOGGING}
                => runner'.state \in {RUNNING, JOGGING, WALKING}
          /\ runner.state = WALKING => runner'.state \in {RUNNING, JOGGING}
          /\ runner.state = RESTING => runner'.state = RUNNING
          /\ runner'.state_time = 0
          /\ runner'.next_state_change >= state_durations(runner'.state)[1]
          /\ runner'.next_state_change <= state_durations(runner'.state)[2]
      ]_vars

\* the dwell time of RUNNING or JOGGING has expired into WALKING
C25_Witness ==
    /\ "changed" \in runner.events
    /\ runner.state = WALKING
    /\ runner.state_time = 0

\* the dwell time of RESTING has expired
C25_RestExpiryReached ==
    /\ "changed" \in runner.events
    /\ "rest_over" \in runner.events

\* a RUNNING runner is reached with more than 400 s of dwell behind it
C25_LongRunReached ==
    /\ runner.state = RUNNING
    /\ runner.state_time > 400

\* the multiplier of a pacing state as the design lists it, in percent
listed_multiplier(s) ==
    IF s = RUNNING THEN 145
    ELSE IF s = JOGGING THEN 115
    ELSE IF s = WALKING THEN 85
    ELSE 0

\* C26: an update outside the approach and outside an active corner cut
\* advances cumulative_distance by speed * dt, the speed being base_speed
\* times the multiplier of the pacing state the update computes it in
\* (1.45, 1.15, 0.85 or 0) times a factor in [0.95, 1.05]; an update
\* that computes its speed in RESTING leaves the distance as it is.
C26_DistanceAdvancesBySpeed ==
    [][(~runner.walking_to_track /\ ~runner.cutting_corner) =>
          LET dt == runner'.total_time - runner.total_time
              delta == runner'.cumulative_distance - runner.cumulative_distance
              nominal == (runner.base_speed
                              * listed_multiplier(runner'.state)) \div 100
          IN  /\ 100 * delta >= 95 * nominal * dt
              /\ 100 * delta <= 105 * nominal * dt
              /\ runner'.state = RESTING => delta = 0
      ]_vars

\* a runner at rest on the course, updated, with no corner cut under way
C26_Witness ==
    /\ ~runner.walking_to_track
    /\ runner.state = RESTING
    /\ runner.state_time > 0
    /\ ~runner.cutting_corner
    /\ runner.cumulative_distance > 0

\* a runner that has advanced at the speed of JOGGING
C26_JoggingReached ==
    /\ runner.state = JOGGING
    /\ runner.state_time > 0
    /\ ~runner.cutting_corner

\* C27: the rest is triggered only with has_rested_ever unset, outside the
\* approach, in the lap drawn for it from 3..5, and between 30 % and 70 %
\* of one of the two straights: never on a bend or in another lap.
C27_RestOnlyInWindow ==
    [][("rest" \in runner'.events) =>
          LET d == runner.cumulative_distance % total_circumference
              left == d - (straight_length + band_circumference)
          IN  /\ ~runner.has_rested_ever
              /\ ~runner.walking_to_track
              /\ runner.rest_trigger_laps \in 3 .. 5
              /\ runner.cumulative_distance \div total_circumference
                    = runner.rest_trigger_laps
              /\ \/ /\ 10 * d >= 3 * straight_length
                    /\ 10 * d <= 7 * straight_length
                 \/ /\ 10 * left >= 3 * straight_length
                    /\ 10 * left <= 7 * straight_length
      ]_vars

\* a rest triggered on the left straight
C27_Witness ==
    /\ "rest" \in runner.events
    /\ runner.state = RESTING
    /\ runner.cumulative_distance % total_circumference
          > straight_length + band_circumference

\* a rest triggered on the right straight
C27_RightStraightReached ==
    /\ "rest" \in runner.events
    /\ runner.cumulative_distance % total_circumference <= straight_length

\* a runner in the lap drawn for its rest, on a bend, not yet rested
C27_BendInRestLapReached ==
    /\ ~runner.has_rested_ever
    /\ lap_of(runner) = runner.rest_trigger_laps
    /\ is_in_curve(runner.cumulative_distance)
    /\ runner.state_time > 0

\* x lies between lo % and hi % of len
within_percent(x, len, lo, hi) ==
    100 * x >= lo * len /\ 100 * x <= hi * len

\* C28: a corner cut starts only when eligible: outside the approach, with
\* no cut active, more than the minimum gap after the previous cut, and
\* at 20 % to 80 % of a straight or 25 % to 75 % of a bend.
C28_CutOnlyWhenEligible ==
    [][("cut_started" \in runner'.events) =>
          LET d == runner'.cumulative_distance % total_circumference
              s == straight_length
              b == band_circumference
          IN  /\ ~runner.walking_to_track
              /\ ~runner.cutting_corner
              /\ runner'.cumulative_distance - runner.last_corner_cut_distance
                    > corner_cut_min_gap
              /\ \/ d <= s /\ within_percent(d, s, 20, 80)
                 \/ /\ s < d /\ d <= s + b
                    /\ within_percent(d - s, b, 25, 75)
                 \/ /\ s + b < d /\ d <= 2 * s + b
                    /\ within_percent(d - s - b, s, 20, 80)
                 \/ /\ d > 2 * s + b
                    /\ within_percent(d - 2 * s - b, b, 25, 75)
      ]_vars

\* a corner cut started on a bend, beyond the first hundred metres
C28_Witness ==
    /\ "cut_started" \in runner.events
    /\ is_in_curve(runner.cumulative_distance)
    /\ runner.cumulative_distance > corner_cut_min_gap

\* a corner cut started on a straight
C28_StraightReached ==
    /\ "cut_started" \in runner.events
    /\ ~is_in_curve(runner.cumulative_distance)

\* a runner inside the window with no cut active, too soon after its last
\* cut
C28_TooSoonReached ==
    /\ ~runner.walking_to_track
    /\ ~runner.cutting_corner
    /\ can_cut(runner)
    /\ runner.last_corner_cut_distance >= 0
    /\ runner.cumulative_distance - runner.last_corner_cut_distance
          <= corner_cut_min_gap

\* C29: every corner cut that starts is completed: under update calls with
\* dt > 0 that never cease, corner_progress never goes back while the cut
\* is active, and the cut ends, whether or not a rest or a forced change
\* of state falls into it.
C29_CutCompletes ==
    /\ [][(runner.cutting_corner /\ runner'.cutting_corner)
             => runner'.corner_progress >= runner.corner_progress]_vars
    /\ (runner.cutting_corner /\ runner.total_time <= LiveCutStartTime)
          ~> ~runner.cutting_corner

\* a runner at rest in the middle of a corner cut
C29_Witness ==
    /\ runner.cutting_corner
    /\ runner.state = RESTING
    /\ runner.total_time <= LiveCutStartTime
    /\ runner.corner_progress > 0

\* C30: the approach terminates: each update(dt), dt > 0, adds
\* 0.56 * dt / L to the progress whatever the base speed, the approach is
\* over after ceil(L / (0.56 * dt)) calls at most, and the update after
\* it advances the cumulative distance.
C30_ApproachTerminates ==
    /\ [](runner.walking_to_track =>
             /\ runner.walking_progress
                   = generator.step * walking_speed * generator.dt
             /\ runner.cumulative_distance = 0
             /\ generator.step < ceil_div(runner.walking_path_length,
                                          walking_speed * generator.dt))
    /\ []((~runner.walking_to_track /\ runner.total_time = 0) =>
             /\ generator.step = ceil_div(runner.walking_path_length,
                                          walking_speed * generator.dt)
             /\ runner.cumulative_distance = 0)
    /\ []((~runner.walking_to_track /\ runner.total_time > 0) =>
             runner.cumulative_distance > 0)
    /\ runner.walking_to_track ~> ~runner.walking_to_track

\* a runner of base speed 1.28 m/s has arrived with its eleventh call of
\* update(1), as one of 2.56 m/s does
C30_Witness ==
    /\ ~runner.walking_to_track
    /\ "arrived" \in runner.events
    /\ generator.dt = 1
    /\ generator.step = 11
    /\ runner.base_speed = 12800

\* the first update after the approach has been made
C30_FirstRunUpdateReached ==
    /\ ~runner.walking_to_track
    /\ runner.total_time > 0
    /\ runner.cumulative_distance > 0

\* C31 (as claimed): every rest lasts between 10 and 30 seconds of run
\* time: the update that takes the state out of RESTING finds it at rest
\* for at least 10 s and at most 30 s.
C31_RestLastsTenToThirty ==
    [][("rest_over" \in runner'.events) =>
          /\ runner.state = RESTING
          /\ runner.state_time >= 10
          /\ runner.state_time <= 30]_vars

\* C31: a rest lasts at most the dwell drawn at its trigger, 10 to 30 s:
\* while RESTING the timer stays below that dwell; the rest ends by dwell
\* expiry in the update that brings the timer, which counts the step of
\* the trigger as well, up to the dwell, or sooner by the pace check.
C31_RestEndsByDwellOrPaceCheck ==
    /\ [](runner.state = RESTING =>
             /\ runner.next_state_change >= 10
             /\ runner.next_state_change <= 30
             /\ runner.state_time < runner.next_state_change)
    /\ [][("rest_over" \in runner'.events) =>
             LET dt == runner'.total_time - runner.total_time IN
             \/ /\ "changed" \in runner'.events
                /\ runner.state = RESTING
                /\ runner.state_time + dt >= runner.next_state_change
                /\ runner.state_time < runner.next_state_change
             \/ /\ "changed" \in runner'.events
                /\ "rest" \in runner'.events
                /\ dt >= 10
             \/ /\ runner.state = RESTING
                /\ ("sped_up" \in runner'.events
                       \/ "forced_running" \in runner'.events)
                /\ runner.state_time < runner.next_state_change]_vars

\* a rest has been ended by dwell expiry, in an update after its trigger
C31_Witness ==
    /\ "rest_over" \in runner.events
    /\ "changed" \in runner.events
    /\ "rest" \notin runner.events
    /\ runner.has_rested_ever

\* a rest has been ended by the pace check
C31_PaceCheckEndReached ==
    /\ "rest_over" \in runner.events
    /\ "changed" \notin runner.events
    /\ runner.has_rested_ever

\* C32 (as claimed): a runner at rest is completely stopped: an update
\* that finds the state RESTING and leaves it RESTING, outside the
\* approach and outside a corner cut, leaves the true position as it was.
C32_RestingKeepsPosition ==
    [][(/\ runner.state = RESTING
        /\ runner'.state = RESTING
        /\ ~runner.walking_to_track
        /\ ~runner.cutting_corner
        /\ ~runner'.cutting_corner)
          => runner'.true_pos = runner.true_pos]_vars

\* C33 (as claimed): the lateral offset follows its target at a bounded
\* rate: in every update on the course lane_offset changes by at most
\* lane_change_speed * dt, in the direction of the target, and ends no
\* farther from the target than it was.
C33_OffsetFollowsTarget ==
    [][(~runner.walking_to_track) =>
          LET dt == runner'.total_time - runner.total_time
              target == runner'.target_lane_offset
              step == runner'.lane_offset - runner.lane_offset
          IN  /\ Abs(step) <= lane_change_speed * dt
              /\ step * (target - runner.lane_offset) >= 0
              /\ Abs(target - runner'.lane_offset)
                    <= Abs(target - runner.lane_offset)]_vars

\* C34 (as claimed): a GPS point records the runner as it is when the
\* point is taken: its state, its cumulative distance, and as speed the
\* speed the runner moves at (walking_speed during the approach, 0 at
\* rest, base_speed * multiplier within the 5 % of the jitter otherwise).
C34_PointRecordsRunner ==
    [][Len(generator'.gps_points) > Len(generator.gps_points) =>
          LET p == generator'.gps_points[Len(generator'.gps_points)]
              nominal == runner'.base_speed * speed_multipliers(runner'.state)
          IN  /\ p.state = runner'.state
              /\ p.distance = runner'.cumulative_distance
              /\ IF runner'.walking_to_track
                 THEN p.speed = walking_speed
                 ELSE /\ 100 * p.speed >= 95 * (nominal \div 100)
                      /\ 100 * p.speed <= 105 * (nominal \div 100)
                      /\ (runner'.state = RESTING => p.speed = 0)]_vars

\* C35: get_track_position_with_rotation(t) never moves simulation_time
\* backwards.  If t is more than two steps ahead of simulation_time it
\* applies update(dt) until simulation_time >= t (stopping at the first
\* such time); otherwise, t behind the clock included, it applies no
\* update.  So for t >= the clock before the call the clock after it is
\* in [t - 2*dt, t + dt), and every call takes exactly one GPS reading.
C35_ClockNeverGoesBack ==
    [][generator'.polls = generator.polls + 1 =>
          LET dt == generator.track_config.simulation_dt
              t == generator'.t
              before == generator.simulation_time
              after == generator'.simulation_time
              n == generator'.updates - generator.updates
          IN  /\ after >= before
              /\ after = before + n * dt
              /\ IF t - before > 2 * dt
                 THEN after >= t /\ after - dt < t /\ n > 0
                 ELSE n = 0 /\ runner' = runner
              /\ (t >= before => t - 2 * dt <= after /\ after < t + dt)
              /\ gps_sensor'.readings = gps_sensor.readings + 1]_vars

\* a call for a time behind the clock by more than two steps has returned:
\* the clock stayed where an earlier fast-forward had taken it
C35_Witness ==
    /\ generator.call = "get_track_position"
    /\ generator.polls = 2
    /\ generator.updates > 0
    /\ generator.simulation_time - generator.t
          > 2 * generator.track_config.simulation_dt
    /\ gps_sensor.readings = 2

\* a fast-forward has stopped past t: the step does not divide the jump
C35_OvershootReached ==
    /\ generator.call = "get_track_position"
    /\ generator.polls = 1
    /\ generator.simulation_time > generator.t
    /\ generator.updates > 0

\* a call for a time at most two steps ahead has returned without update
C35_NearPollReached ==
    /\ generator.call = "get_track_position"
    /\ generator.polls = 2
    /\ generator.t > generator.simulation_time
    /\ generator.updates > 0

\* C36 (as claimed): the handoff from the approach to the course is
\* continuous: when the approach has ended, cumulative_distance is the
\* track distance of the entry point, and the first update on the course
\* puts the true position within the tick's travel plus the lane offset
\* of the entry point (distances measured along the track, either way
\* round the lap).
C36_HandoffContinuous ==
    [][(/\ ~runner.walking_to_track
        /\ runner.total_time = 0
        /\ runner'.total_time > 0
        /\ ~runner'.cutting_corner)
          => LET entry == runner.track_entry_position
                 gap == Abs(runner'.true_pos.d - entry.d)
                 travel == runner'.cumulative_distance
                              - runner.cumulative_distance
             IN  /\ runner.true_pos = entry
                 /\ get_position_on_track(runner.cumulative_distance, 0) = entry
                 /\ Min(gap, total_circumference - gap)
                       <= travel + Abs(runner'.lane_offset)]_vars

\* C37: the dwell invariant.  After construction and after every update,
\* state_time is strictly below next_state_change, and next_state_change
\* lies in the dwell range of the current state (RUNNING 180-420 s,
\* JOGGING 15-40 s, WALKING 5-15 s, RESTING 10-30 s), whether the state
\* was last changed by the dwell expiry, by the pace check or by the rest
\* trigger.
C37_DwellInvariant ==
    /\ runner.state_time < runner.next_state_change
    /\ CASE runner.state = RUNNING ->
              180 <= runner.next_state_change /\ runner.next_state_change <= 420
         [] runner.state = JOGGING ->
              15 <= runner.next_state_change /\ runner.next_state_change <= 40
         [] runner.state = WALKING ->
              5 <= runner.next_state_change /\ runner.next_state_change <= 15
         [] runner.state = RESTING ->
              10 <= runner.next_state_change /\ runner.next_state_change <= 30

\* an update on the course has triggered the rest and advanced its timer
C37_Witness ==
    /\ ~runner.walking_to_track
    /\ "rest" \in runner.events
    /\ runner.state = RESTING
    /\ runner.state_time > 0

\* the pace check has changed the state in the update just made
C37_PaceCheckChangeReached ==
    /\ runner.events \cap {"forced_running", "sped_up"} /= {}
    /\ runner.state \in {RUNNING, JOGGING}
    /\ runner.state_time > 0

\* the dwell expiry has changed the state to WALKING in the update just made
C37_ExpiryChangeReached ==
    /\ "changed" \in runner.events
    /\ runner.state = WALKING
    /\ runner.state_time = 0

\* C38 (as claimed): for a non-empty sample list with timestamps in order
\* the state times returned by get_route_statistics add up to the
\* duration it reports.
C38_StateTimesSumToReported ==
    (generator.call = "get_route_statistics" /\ generator.gps_points # <<>>) =>
        LET out == generator.returned
        IN  out.state_times[RUNNING] + out.state_times[JOGGING]
              + out.state_times[WALKING] + out.state_times[RESTING]
                 = out.duration

\* C38 (amended): for a non-empty sample list with timestamps in order
\* the state times returned add up to the last timestamp minus the first,
\* each interval counted for the state of its earlier sample (a state that
\* tags no earlier sample of a positive interval gets 0; if one state tags
\* every sample but the last it gets everything).  The duration reported
\* is that difference rounded to 0.01 s: it is within 0.005 s of the sum,
\* and equal to it when the difference is a multiple of 0.01 s.
C38_StateTimesSumToSpan ==
    (generator.call = "get_route_statistics" /\ generator.gps_points # <<>>) =>
        LET out == generator.returned
            pts == generator.gps_points
            span == pts[Len(pts)].timestamp - pts[1].timestamp
            total == out.state_times[RUNNING] + out.state_times[JOGGING]
                       + out.state_times[WALKING] + out.state_times[RESTING]
        IN  /\ total = span
            /\ \A s \in RunnerState :
                  /\ out.state_times[s] >= 0
                  /\ (\A i \in 1 .. Len(pts) - 1 :
                         pts[i].state = s => pts[i + 1].timestamp = pts[i].timestamp)
                        => out.state_times[s] = 0
                  /\ (\A i \in 1 .. Len(pts) - 1 : pts[i].state = s)
                        => out.state_times[s] = span
            /\ out.duration % 10 = 0
            /\ Abs(out.duration - total) <= 5
            /\ span % 10 = 0 => out.duration = total

\* statistics of three samples, the first two RUNNING and RESTING and the
\* last RUNNING again, 4 ms and 1996 ms apart: RUNNING gets the first
\* interval, RESTING the second, and 2.00 s are reported for 2.000 s
C38_Witness ==
    /\ generator.call = "get_route_statistics"
    /\ Len(generator.gps_points) = 3
    /\ generator.gps_points[1].state = RUNNING
    /\ generator.gps_points[2].state = RESTING
    /\ generator.gps_points[3].state = RUNNING
    /\ generator.returned.state_times[RUNNING] = 4
    /\ generator.returned.state_times[RESTING] = 1996
    /\ generator.returned.duration = 2000

\* statistics of samples 4 ms apart: the state times add up to 0.004 s
\* and the duration reported is 0.00 s
C38_RoundedAwayReached ==
    /\ generator.call = "get_route_statistics"
    /\ Len(generator.gps_points) = 2
    /\ generator.returned.state_times[RESTING] = 4
    /\ generator.returned.duration = 0

====
